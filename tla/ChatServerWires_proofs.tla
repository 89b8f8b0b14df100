----------------------- MODULE ChatServerWires_proofs -----------------------
(***************************************************************************)
(* Theorems about what ChatServer writes to whom, and when, for any        *)
(* clients, descriptors, names, addresses and requests.                    *)
(***************************************************************************)
EXTENDS ChatServer_proofs

-----------------------------------------------------------------------------
(* Who has a session *)

\* A connection that has registered has its session under its own descriptor
\* until its thread has removed it, and so cannot register again.
OwnSession ==
    \A c \in Conn :
        /\ pc[c] = "new" => username[c] = NoName
        /\ pc[c] \notin {"new", "close", "closed"} /\ username[c] # NoName => sessions[fd[c]] = c

Base == Typed /\ RegistryInv

\* The session a thread finds under its descriptor is its own, and bears a name.
LEMMA SessionIsOwn ==
    ASSUME Base, NEW c \in Conn, pc[c] \notin {"new", "closed"}, HasSession(c)
    PROVE  sessions[fd[c]] = c /\ username[c] \in Name
<1>. USE DEF Base, Typed, TypeOK, RegistryInv
<1>1. fd[c] \in Fd /\ sock[fd[c]] = c
  BY DEF Placed
<1>2. sessions[fd[c]] \in Conn /\ pc[sessions[fd[c]]] \notin {"new", "closed"}
  BY <1>1 DEF HasSession, SessionsPlaced
<1>3. fd[sessions[fd[c]]] = fd[c] /\ username[sessions[fd[c]]] \in Name
  BY <1>1 DEF HasSession, RegistryConsistent
<1>4. sessions[fd[c]] = c
  BY <1>1, <1>2, <1>3 DEF Placed
<1>. QED BY <1>3, <1>4

\* Everybody in the registry bears a name.
LEMMA PresentNamed ==
    ASSUME Base, NEW d \in Present
    PROVE  d \in Conn /\ username[d] \in Name
  BY DEF Base, Typed, TypeOK, RegistryInv, RegistryConsistent, Present

\* Only a thread itself enters or removes its session.
LEMMA OwnSessionNext == Base /\ OwnSession /\ [Next]_vars => OwnSession'
<1>. SUFFICES ASSUME Base, OwnSession, [Next]_vars, NEW d \in Conn
              PROVE  /\ pc'[d] = "new" => username'[d] = NoName
                     /\ pc'[d] \notin {"new", "close", "closed"} /\ username'[d] # NoName
                           => sessions'[fd'[d]] = d
  BY DEF OwnSession
<1>. USE DEF Base, Typed, TypeOK, RegistryInv
<1>1. CASE Quiet
  BY <1>1 DEF Quiet, OwnSession
<1>2. ASSUME NEW c \in Conn, NEW f \in Fd, NEW a \in Addr, Accept(c, f, a)
      PROVE  /\ pc'[d] = "new" => username'[d] = NoName
             /\ pc'[d] \notin {"new", "close", "closed"} /\ username'[d] # NoName
                   => sessions'[fd'[d]] = d
  BY <1>2 DEF Accept, Goto, registry, identity, OwnSession
<1>3. ASSUME NEW c \in Conn, c # d, pc[d] \notin {"new", "closed"}, pc[c] \notin {"new", "closed"}
      PROVE  fd[c] # fd[d]
  BY <1>3 DEF Placed
<1>4. ASSUME NEW c \in Conn, NEW r \in Requests[c], Register(c, r)
      PROVE  /\ pc'[d] = "new" => username'[d] = NoName
             /\ pc'[d] \notin {"new", "close", "closed"} /\ username'[d] # NoName
                   => sessions'[fd'[d]] = d
  <2>1. /\ pc[c] = "recv" /\ pc' = [pc EXCEPT ![c] = "welcome"] /\ fd' = fd
        /\ username' = [username EXCEPT ![c] = r.user]
        /\ sessions' = [sessions EXCEPT ![fd[c]] = c]
    BY <1>4 DEF Register, Read, Goto, net
  <2>2. fd[c] \in Fd
    BY <1>4, RegisterFacts
  <2>3. CASE d = c
    BY <2>1, <2>2, <2>3
  <2>4. CASE d # c
    <3>1. pc'[d] = pc[d] /\ username'[d] = username[d] /\ fd'[d] = fd[d]
      BY <2>1, <2>4
    <3>2. CASE pc[d] \notin {"new", "close", "closed"} /\ username[d] # NoName
      <4>1. fd[d] \in Fd /\ fd[d] # fd[c]
        BY <1>3, <2>1, <2>4, <3>2 DEF Placed
      <4>. QED BY <2>1, <3>1, <3>2, <4>1 DEF OwnSession
    <3>. QED BY <3>1, <3>2 DEF OwnSession
  <2>. QED BY <2>3, <2>4
<1>5. ASSUME NEW c \in Conn, RemoveSession(c)
      PROVE  /\ pc'[d] = "new" => username'[d] = NoName
             /\ pc'[d] \notin {"new", "close", "closed"} /\ username'[d] # NoName
                   => sessions'[fd'[d]] = d
  <2>1. /\ pc[c] = "cleanup" /\ pc' = [pc EXCEPT ![c] = "close"] /\ UNCHANGED <<fd, username>>
        /\ sessions' = sessions \/ sessions' = [sessions EXCEPT ![fd[c]] = NoConn]
    BY <1>5 DEF RemoveSession, Forget, ForgetSession, Return, Goto, net, registry
  <2>2. CASE d = c
    BY <2>1, <2>2
  <2>3. CASE d # c
    <3>1. pc'[d] = pc[d] /\ username'[d] = username[d] /\ fd'[d] = fd[d]
      BY <2>1, <2>3
    <3>2. CASE pc[d] \notin {"new", "close", "closed"} /\ username[d] # NoName
      <4>1. fd[d] \in Fd /\ fd[d] # fd[c]
        BY <1>3, <2>1, <2>3, <3>2 DEF Placed
      <4>. QED BY <2>1, <3>1, <3>2, <4>1 DEF OwnSession
    <3>. QED BY <3>1, <3>2 DEF OwnSession
  <2>. QED BY <2>2, <2>3
<1>6. ASSUME NEW c \in Conn, CloseSocket(c)
      PROVE  /\ pc'[d] = "new" => username'[d] = NoName
             /\ pc'[d] \notin {"new", "close", "closed"} /\ username'[d] # NoName
                   => sessions'[fd'[d]] = d
  BY <1>6 DEF CloseSocket, Goto, registry, identity, OwnSession
<1>. QED BY <1>1, <1>2, <1>4, <1>5, <1>6, NextQuiet

-----------------------------------------------------------------------------
(* Who knows whom *)

\* A session that is registered and has been told so.
Introduced(d) == username[d] \in Name /\ pc[d] # "welcome"

\* A thread in a handler that needs a session, or with an answer that is not a
\* refusal.
Handling(c) ==
    \/ pc[c] \in {"restore", "setstatus", "remember", "restored", "touch", "collect", "broadcast",
                  "lookup", "check", "deliver"}
    \/ pc[c] = "reply" /\ reply[c] \notin Refusals

\* Other threads learn of a session under the mutex, which handle_register keeps
\* until the client has been answered: whoever is written to has been introduced.
Known ==
    /\ \A c \in Conn : pc[c] = "welcome" => sessions_mutex = c /\ username[c] \in Name
    /\ \A c \in Conn : pc[c] = "refuse" => sessions_mutex = c /\ reply[c] \in Refusals
    /\ wpc = "scan" => sessions_mutex = Watchdog
    /\ \A c \in Conn : \A d \in targets[c] : Introduced(d)
    /\ \A d \in scan \cup to_notify : Introduced(d)
    /\ marking # NoConn => Introduced(marking)
    /\ \A c \in Conn : Handling(c) => Introduced(c)
    /\ \A c \in Conn : pc[c] \in {"check", "deliver"} =>
          \A d \in targets[c] : username[d] = req[c].user

\* With the mutex free, everybody in the registry has been introduced.
LEMMA PresentIntroduced ==
    ASSUME Base, Known, MutexFree, NEW d \in Present
    PROVE  Introduced(d)
<1>1. d \in Conn /\ username[d] \in Name
  BY PresentNamed
<1>. QED BY <1>1, ConstantsOK DEF Known, MutexFree, Introduced

\* A step of thread c that is not a registration.
Effect(c) ==
    /\ UNCHANGED <<username, dog>>
    /\ \A d \in Conn \ {c} : /\ pc'[d] = pc[d] /\ targets'[d] = targets[d]
                             /\ req'[d] = req[d] /\ reply'[d] = reply[d]
    /\ pc'[c] # "welcome"
    /\ targets'[c] \subseteq targets[c] \/ (MutexFree /\ targets'[c] \subseteq Present)
    /\ sessions_mutex' = sessions_mutex \/ pc[c] \in {"refuse", "welcome"} \/ MutexFree
    /\ sessions_mutex' \in {sessions_mutex, c, Nobody}
    /\ pc'[c] = "refuse" => sessions_mutex' = c /\ reply'[c] \in Refusals
    /\ Handling(c)' => Handling(c) \/ (pc[c] = "recv" /\ HasSession(c))
    /\ pc'[c] \in {"check", "deliver"} =>
          \/ pc[c] = "check" /\ targets'[c] = targets[c] /\ req'[c] = req[c]
          \/ \A d \in targets'[c] : username[d] = req'[c].user

\* What serving a request at once changes.
LEMMA ServeEffect ==
    ASSUME Base, NEW c \in Conn, NEW r \in Requests[c], Serve(c, r), ~Register(c, r)
    PROVE  Effect(c)
<1>. USE DEF Base, Typed, TypeOK, Effect, Handling, Read, Answer, Goto, Refusals, identity, locals
<1>1. CASE RefuseRegister(c, r)
  BY <1>1 DEF RefuseRegister
<1>2. CASE RejectRegister(c, r)
  BY <1>2 DEF RejectRegister, Verdict, HeldForReply
<1>3. CASE RefuseStranger(c, r)
  BY <1>3 DEF RefuseStranger
<1>4. CASE RefuseMalformed(c, r)
  BY <1>4 DEF RefuseMalformed
<1>5. CASE Begin(c, r)
  BY <1>5 DEF Begin, FirstStep, Stranger
<1>6. CASE RefuseUnknown(c, r)
  BY <1>6 DEF RefuseUnknown
<1>7. CASE HandleQuit(c, r)
  BY <1>7 DEF HandleQuit
<1>8. CASE DropTooLong(c, r)
  BY <1>8 DEF DropTooLong, AfterStream
<1>. QED BY <1>1, <1>2, <1>3, <1>4, <1>5, <1>6, <1>7, <1>8 DEF Serve

\* What the later steps of a thread change.
LEMMA ThreadEffect ==
    ASSUME Base, NEW c \in Conn, ThreadStep(c)
    PROVE  Effect(c)
<1>. USE DEF Base, Typed, TypeOK, Effect, Handling, Goto, identity, locals
<1>1. CASE SendRefusal(c) \/ Welcome(c)
  BY <1>1 DEF SendRefusal, Welcome, Return
<1>2. CASE Restore(c) \/ NotifyRestored(c)
  BY <1>2 DEF Restore, NotifyRestored
<1>3. CASE SetStatus(c) \/ Remember(c) \/ Touch(c)
  BY <1>3 DEF SetStatus, Remember, Touch, AfterTouch
<1>4. CASE CollectTargets(c)
  BY <1>4 DEF CollectTargets, Targets
<1>5. CASE ListUsers(c)
  BY <1>5 DEF ListUsers, Answer
<1>6. CASE LookupUser(c)
  <2>. DEFINE d == SessionOf(req[c].user)
  <2>1. CASE pc'[c] = "reply" /\ targets' = targets
    BY <1>6, <2>1 DEF LookupUser, Answer
  <2>2. CASE d # NoConn /\ Goto(c, "check") /\ targets' = [targets EXCEPT ![c] = {d}]
    <3>1. d \in Present /\ username[d] = req[c].user
      BY <2>2 DEF SessionOf, Present, RegistryInv, RegistryConsistent
    <3>2. MutexFree /\ UNCHANGED <<username, dog, sessions_mutex, reads, req>>
          /\ pc[c] = "lookup" /\ UNCHANGED reply
      BY <1>6, <2>2 DEF LookupUser, Answer
    <3>. QED BY <2>2, <3>1, <3>2
  <2>. QED BY <1>6, <2>1, <2>2 DEF LookupUser, Answer
<1>7. ASSUME NEW d \in Conn, SendNext(c, d) PROVE Effect(c)
  <2>1. CASE Unsent(c, d) = {}
    BY <1>7, <2>1 DEF SendNext, Return
  <2>2. CASE Unsent(c, d) # {}
    <3>1. /\ pc[c] = "broadcast" /\ UNCHANGED <<username, dog, pc, req, reply, sessions_mutex>>
          /\ targets' = [targets EXCEPT ![c] = Unsent(c, d)]
      BY <1>7, <2>2 DEF SendNext
    <3>2. targets'[c] \subseteq targets[c]
      BY <3>1 DEF Unsent
    <3>. QED BY <3>1, <3>2
  <2>. QED BY <2>1, <2>2
<1>8. ASSUME NEW d \in Conn, CheckAlive(c, d) PROVE Effect(c)
  BY <1>8 DEF CheckAlive, Answer
<1>9. ASSUME NEW d \in Conn, Deliver(c, d) PROVE Effect(c)
  BY <1>9 DEF Deliver, Answer
<1>10. CASE Reply(c)
  BY <1>10 DEF Reply, Return, AfterReply
<1>11. CASE EndOfStream(c)
  BY <1>11 DEF EndOfStream, AfterStream
<1>12. CASE RemoveSession(c)
  BY <1>12 DEF RemoveSession, Return
<1>13. CASE CloseSocket(c)
  BY <1>13 DEF CloseSocket
<1>. QED BY <1>1, <1>2, <1>3, <1>4, <1>5, <1>6, <1>7, <1>8, <1>9, <1>10, <1>11, <1>12, <1>13
         DEF ThreadStep

\* No step of a thread makes it hold a session that is not introduced yet,
LEMMA KnownThread ==
    ASSUME Base, Known, NEW c \in Conn, Effect(c)
    PROVE  Known'
<1>. USE DEF Base, Typed, TypeOK, dog
<1>1. ASSUME NEW d \in Conn, Introduced(d) PROVE Introduced(d)'
  BY <1>1 DEF Effect, Introduced
<1>2. ASSUME NEW x \in Conn, pc'[x] = "welcome" PROVE sessions_mutex' = x /\ username'[x] \in Name
  BY <1>2, ConstantsOK DEF Effect, Known, MutexFree
<1>8. ASSUME NEW x \in Conn, pc'[x] = "refuse" PROVE sessions_mutex' = x /\ reply'[x] \in Refusals
  <2>1. CASE x = c
    BY <1>8, <2>1 DEF Effect
  <2>2. CASE x # c
    <3>1. pc[x] = "refuse" /\ reply'[x] = reply[x]
      BY <1>8, <2>2 DEF Effect
    <3>2. sessions_mutex = x /\ reply[x] \in Refusals
      BY <3>1 DEF Known
    <3>3. sessions_mutex' = sessions_mutex
      <4>1. ~MutexFree
        BY <3>2, ConstantsOK DEF MutexFree
      <4>2. pc[c] \notin {"refuse", "welcome"}
        BY <2>2, <3>2 DEF Known
      <4>. QED BY <4>1, <4>2 DEF Effect
    <3>. QED BY <3>1, <3>2, <3>3
  <2>. QED BY <2>1, <2>2
<1>3. wpc' = "scan" => sessions_mutex' = Watchdog
  BY ConstantsOK DEF Effect, Known, MutexFree
<1>4. ASSUME NEW x \in Conn, NEW d \in targets'[x] PROVE Introduced(d)'
  <2>1. CASE d \in targets[x]
    BY <1>1, <2>1 DEF Known
  <2>2. CASE MutexFree /\ d \in Present
    BY <1>1, <2>2, PresentIntroduced, PresentNamed
  <2>. QED BY <1>4, <2>1, <2>2 DEF Effect
<1>5. /\ \A d \in scan' \cup to_notify' : Introduced(d)'
      /\ marking' # NoConn => Introduced(marking)'
  <2>1. UNCHANGED <<scan, to_notify, marking>>
    BY DEF Effect
  <2>2. ASSUME NEW d \in scan \cup to_notify PROVE Introduced(d)'
    BY <1>1 DEF Known
  <2>3. ASSUME marking # NoConn PROVE Introduced(marking)'
    <3>1. marking \in Conn /\ Introduced(marking)
      BY <2>3 DEF Known
    <3>2. username'[marking] \in Name /\ pc'[marking] # "welcome"
      BY <3>1 DEF Effect, Introduced
    <3>. QED BY <2>1, <3>2 DEF Introduced
  <2>. QED BY <2>1, <2>2, <2>3
<1>6. ASSUME NEW x \in Conn, Handling(x)' PROVE Introduced(x)'
  <2>1. CASE Handling(x)
    BY <1>1, <2>1 DEF Known
  <2>2. CASE x # c
    BY <1>6, <2>1, <2>2 DEF Effect, Handling
  <2>3. CASE x = c /\ pc[c] = "recv" /\ HasSession(c)
    BY <1>1, <2>3, SessionIsOwn DEF Introduced
  <2>. QED BY <1>6, <2>1, <2>2, <2>3 DEF Effect
<1>7. ASSUME NEW x \in Conn, pc'[x] \in {"check", "deliver"}, NEW d \in targets'[x]
      PROVE  username'[d] = req'[x].user
  <2>0. username' = username
    BY DEF Effect
  <2>1. CASE x # c
    <3>1. pc[x] \in {"check", "deliver"} /\ d \in targets[x] /\ req'[x] = req[x]
      BY <1>7, <2>1 DEF Effect
    <3>. QED BY <2>0, <3>1 DEF Known
  <2>2. CASE x = c
    <3>1. CASE pc[c] = "check" /\ targets'[c] = targets[c] /\ req'[c] = req[c]
      BY <1>7, <2>0, <2>2, <3>1 DEF Known
    <3>2. CASE \A e \in targets'[c] : username[e] = req'[c].user
      BY <1>7, <2>0, <2>2, <3>2
    <3>. QED BY <1>7, <2>2, <3>1, <3>2 DEF Effect
  <2>. QED BY <2>1, <2>2
<1>. QED BY <1>2, <1>3, <1>4, <1>5, <1>6, <1>7, <1>8 DEF Known

\* A thread that registers had no name, so that nobody knew of it.
LEMMA RegisterUnnamed ==
    ASSUME Base, OwnSession, NEW c \in Conn, NEW r \in Requests[c], Register(c, r)
    PROVE  username[c] = NoName
<1>1. pc[c] = "recv"
  BY DEF Register, Read
<1>2. sessions[fd[c]] = NoConn
  BY RegisterFacts DEF Base
<1>. QED BY <1>1, <1>2, ConstantsOK DEF OwnSession

\* Whoever has been introduced stays so.
LEMMA RegisterIntroduced ==
    ASSUME Base, OwnSession, NEW c \in Conn, NEW r \in Requests[c], Register(c, r),
           NEW d \in Conn, Introduced(d)
    PROVE  d # c /\ Introduced(d)' /\ username'[d] = username[d]
<1>1. d # c
  BY RegisterUnnamed, ConstantsOK DEF Introduced
<1>. QED BY <1>1 DEF Base, Typed, TypeOK, Register, Goto, Introduced

\* registering introduces nobody before the welcome,
LEMMA KnownRegister ==
    ASSUME Base, OwnSession, Known, NEW c \in Conn, NEW r \in Requests[c], Register(c, r)
    PROVE  Known'
<1>. USE DEF Base, Typed, TypeOK
<1>1. /\ MutexFree /\ sessions_mutex' = c
      /\ pc' = [pc EXCEPT ![c] = "welcome"]
      /\ username' = [username EXCEPT ![c] = r.user]
      /\ req' = [req EXCEPT ![c] = r]
      /\ UNCHANGED <<reply, targets, wpc, scan, marking, to_notify>>
  BY DEF Register, Read, Goto, HeldForReply, dog
<1>2. r.user \in Name
  BY RegisterFacts
<1>3. ASSUME NEW x \in Conn, pc'[x] = "welcome" PROVE sessions_mutex' = x /\ username'[x] \in Name
  BY <1>1, <1>2, <1>3, ConstantsOK DEF Known, MutexFree
<1>9. \A x \in Conn : pc'[x] # "refuse"
  BY <1>1, ConstantsOK DEF Known, MutexFree
<1>4. wpc' # "scan"
  BY <1>1, ConstantsOK DEF Known, MutexFree
<1>5. ASSUME NEW x \in Conn, NEW d \in targets'[x] PROVE Introduced(d)'
  BY <1>1, <1>5, RegisterIntroduced DEF Known
<1>6. /\ \A d \in scan' \cup to_notify' : Introduced(d)'
      /\ marking' # NoConn => Introduced(marking)'
  <2>1. ASSUME NEW d \in scan \cup to_notify PROVE Introduced(d)'
    BY RegisterIntroduced DEF Known
  <2>2. ASSUME marking # NoConn PROVE Introduced(marking)'
    <3>1. marking \in Conn /\ Introduced(marking)
      BY <2>2 DEF Known
    <3>2. marking # c
      BY <3>1, RegisterIntroduced
    <3>. QED BY <1>1, <3>1, <3>2 DEF Introduced
  <2>. QED BY <1>1, <2>1, <2>2
<1>7. ASSUME NEW x \in Conn, Handling(x)' PROVE Introduced(x)'
  <2>1. x # c
    BY <1>1, <1>7 DEF Handling
  <2>2. Handling(x)
    BY <1>1, <1>7, <2>1 DEF Handling
  <2>. QED BY <2>2, RegisterIntroduced DEF Known
<1>8. ASSUME NEW x \in Conn, pc'[x] \in {"check", "deliver"}, NEW d \in targets'[x]
      PROVE  username'[d] = req'[x].user
  <2>1. x # c /\ pc[x] \in {"check", "deliver"} /\ req'[x] = req[x] /\ d \in targets[x]
    BY <1>1, <1>8
  <2>2. d \in Conn /\ Introduced(d) /\ username[d] = req[x].user
    BY <2>1 DEF Known
  <2>. QED BY <2>1, <2>2, RegisterIntroduced
<1>. QED BY <1>3, <1>4, <1>5, <1>6, <1>7, <1>8, <1>9 DEF Known

\* The watchdog learns of the sessions with the mutex held.
LEMMA KnownWatchdog ==
    ASSUME Base, Known, WatchdogStep
    PROVE  Known'
<1>. USE DEF Base, Typed, TypeOK, Known, Introduced, Handling, identity, locals
<1>1. CASE WakeUp
  <2>1. \A d \in Present : Introduced(d)
    BY <1>1, PresentIntroduced DEF WakeUp
  <2>. QED BY <1>1, <2>1, ConstantsOK DEF WakeUp, MutexFree
<1>2. CASE EndScan
  BY <1>2, ConstantsOK DEF EndScan
<1>3. ASSUME NEW d \in Conn, CheckIdle(d) PROVE Known'
  BY <1>3 DEF CheckIdle
<1>4. ASSUME NEW d \in Conn, Mark(d) PROVE Known'
  BY <1>4, ConstantsOK DEF Mark, Marked
<1>5. ASSUME NEW d \in Conn, Notify(d) PROVE Known'
  BY <1>5 DEF Notify
<1>. QED BY <1>1, <1>2, <1>3, <1>4, <1>5 DEF WatchdogStep

\* Nobody knows of a connection that has only been accepted.
LEMMA KnownEnvironment ==
    ASSUME Base, Known, NEW c \in Conn,
           (\E f \in Fd, a \in Addr : Accept(c, f, a)) \/ HangUp(c) \/ Reset(c) \/ Elapse(c)
    PROVE  Known'
<1>. USE DEF Base, Typed, TypeOK, Known, Introduced, Handling, identity, locals, dog
<1>1. ASSUME NEW f \in Fd, NEW a \in Addr, Accept(c, f, a) PROVE Known'
  BY <1>1 DEF Accept, Goto
<1>2. CASE HangUp(c) \/ Reset(c) \/ Elapse(c)
  BY <1>2 DEF HangUp, Reset, Elapse
<1>. QED BY <1>1, <1>2

\* and the other steps give nobody anything to hold.
LEMMA KnownNext == Base /\ OwnSession /\ Known /\ [Next]_vars => Known'
<1>. SUFFICES ASSUME Base, OwnSession, Known, [Next]_vars PROVE Known'
  OBVIOUS
<1>1. CASE UNCHANGED vars
  BY <1>1 DEF vars, identity, locals, dog, Known, Introduced, Handling
<1>2. ASSUME NEW c \in Conn, NEW r \in Requests[c], Serve(c, r) PROVE Known'
  BY <1>2, KnownRegister, ServeEffect, KnownThread
<1>3. ASSUME NEW c \in Conn, ThreadStep(c) PROVE Known'
  BY <1>3, ThreadEffect, KnownThread
<1>. QED BY <1>1, <1>2, <1>3, KnownEnvironment, KnownWatchdog DEF Next

-----------------------------------------------------------------------------
(* What is written, and when *)

\* A frame that may be written now.
Proper(m) ==
    /\ m \in Frame
    /\ m.by = m.to \/ m.msg # "OK_REGISTER"
    /\ m.by # m.to \/ m.msg \notin Refusals \cup {"OK_REGISTER"} => Introduced(m.to)
    /\ m.msg = "FOR_DM" => username[m.to] = m.re.user
    /\ IF m.by = m.to
       THEN pc[m.to] \notin {"new", "closed"}
       ELSE m.msg \in Delivery \cup {"AUTO_INACTIVE"}

\* A step that writes nothing, or one proper frame.
Occasion ==
    \/ wire' = wire
    \/ \E m \in Frame : Proper(m) /\ Send(m.to, m) /\ UNCHANGED <<sock, fd, username>>

\* What a thread writes to its own client and to others.
LEMMA ThreadOccasion ==
    ASSUME Base, Known, NEW c \in Conn, ThreadStep(c)
    PROVE  Occasion
<1>. USE DEF Base, Typed, TypeOK, net, identity
<1>0. ASSUME NEW d \in Conn, NEW m \in Messages
      PROVE  LET f == NewFrame(c, m, d, reads[c], req[c]) IN
             f \in Frame /\ f.to = d /\ f.by = c /\ f.msg = m /\ f.re = req[c]
  BY <1>0, NewFrameType DEF NewFrame
<1>1. ASSUME NEW d \in Conn, NEW m \in Messages, UNCHANGED <<sock, fd, username>>,
             Send(d, NewFrame(c, m, d, reads[c], req[c])),
             m = "OK_REGISTER" => c = d,
             c # d \/ m \notin Refusals \cup {"OK_REGISTER"} => Introduced(d),
             m = "FOR_DM" => username[d] = req[c].user,
             pc[c] \notin {"new", "closed"},
             c # d => m \in Delivery
      PROVE  Occasion
  <2>. DEFINE f == NewFrame(c, m, d, reads[c], req[c])
  <2>1. f \in Frame /\ f.to = d /\ f.by = c /\ f.msg = m /\ f.re = req[c]
    BY <1>0
  <2>. HIDE DEF f
  <2>2. Proper(f)
    BY <1>1, <2>1 DEF Proper
  <2>3. Send(f.to, f)
    BY <1>1, <2>1 DEF f
  <2>. QED BY <1>1, <2>1, <2>2, <2>3 DEF Occasion
<1>2. CASE Welcome(c)
  BY <1>1, <1>2 DEF Welcome, Messages
<1>3. CASE NotifyRestored(c)
  <2>1. Introduced(c)
    BY <1>3 DEF NotifyRestored, Known, Handling
  <2>. QED BY <1>1, <1>3, <2>1 DEF NotifyRestored, Messages
<1>9. CASE SendRefusal(c)
  <2>1. reply[c] \in Refusals
    BY <1>9 DEF SendRefusal, Known
  <2>2. reply[c] \in Messages /\ reply[c] \notin {"OK_REGISTER", "FOR_DM"}
    BY <2>1 DEF Refusals, Messages, Answers
  <2>. QED BY <1>1, <1>9, <2>1, <2>2 DEF SendRefusal
<1>4. CASE Reply(c)
  <2>1. reply[c] \in Messages /\ reply[c] \notin {"OK_REGISTER", "FOR_DM"}
    BY DEF Messages, Answers
  <2>2. reply[c] \notin Refusals => Introduced(c)
    BY <1>4 DEF Reply, Known, Handling
  <2>. QED BY <1>1, <1>4, <2>1, <2>2 DEF Reply
<1>5. ASSUME NEW d \in Conn, SendNext(c, d) PROVE Occasion
  <2>1. Introduced(d)
    BY <1>5 DEF SendNext, Known
  <2>2. /\ Send(d, NewFrame(c, "BROADCAST_DELIVERY", d, reads[c], req[c]))
        /\ UNCHANGED <<sock, fd, username>> /\ pc[c] = "broadcast"
    BY <1>5 DEF SendNext
  <2>3. "BROADCAST_DELIVERY" \in Messages \cap Delivery
    BY DEF Messages, Delivery
  <2>. QED BY <1>1, <2>1, <2>2, <2>3
<1>6. ASSUME NEW d \in Conn, Deliver(c, d) PROVE Occasion
  <2>1. Introduced(d) /\ username[d] = req[c].user
    BY <1>6 DEF Deliver, Known
  <2>. QED BY <1>1, <1>6, <2>1 DEF Deliver, Messages, Delivery
<1>7. CASE Restore(c) \/ SetStatus(c) \/ Remember(c) \/ Touch(c) \/ CollectTargets(c)
             \/ ListUsers(c) \/ LookupUser(c) \/ EndOfStream(c) \/ RemoveSession(c)
             \/ CloseSocket(c)
  BY <1>7 DEF Occasion, Restore, SetStatus, Remember, Touch, CollectTargets, ListUsers, LookupUser,
              EndOfStream, RemoveSession, CloseSocket
<1>8. ASSUME NEW d \in Conn, CheckAlive(c, d) PROVE Occasion
  BY <1>8 DEF Occasion, CheckAlive
<1>. QED BY <1>2, <1>3, <1>4, <1>5, <1>6, <1>7, <1>8, <1>9 DEF ThreadStep

\* Nothing else is written but the watchdog's notices.
LEMMA NextOccasion == Base /\ Known /\ [Next]_vars => Occasion
<1>. SUFFICES ASSUME Base, Known, [Next]_vars PROVE Occasion
  OBVIOUS
<1>. USE DEF Base, Typed, TypeOK, net, identity
<1>2. ASSUME NEW c \in Conn, NEW r \in Requests[c], Serve(c, r) PROVE Occasion
  BY <1>2 DEF Serve, Occasion, RefuseRegister, RejectRegister, Register, RefuseStranger,
              RefuseMalformed,
                    Begin, RefuseUnknown, HandleQuit, DropTooLong
<1>3. ASSUME NEW d \in Conn, Notify(d) PROVE Occasion
  <2>. DEFINE f == NewFrame(Watchdog, "AUTO_INACTIVE", d, 0, NoRequest)
  <2>1. f \in Frame /\ f.to = d /\ f.by = Watchdog /\ f.msg = "AUTO_INACTIVE"
    BY NewFrameType, NoRequestType DEF NewFrame, Messages
  <2>2. Introduced(d)
    BY <1>3 DEF Notify, Known
  <2>. HIDE DEF f
  <2>3. Proper(f)
    BY <2>1, <2>2, ConstantsOK DEF Proper
  <2>4. Send(f.to, f)
    BY <1>3, <2>1 DEF Notify, f
  <2>. QED BY <1>3, <2>1, <2>3, <2>4 DEF Notify, Occasion
<1>4. ASSUME WatchdogStep PROVE Occasion
  BY <1>3, <1>4 DEF WatchdogStep, Occasion, WakeUp, EndScan, CheckIdle, Mark
<1>5. ASSUME NEW c \in Conn,
             (\E f \in Fd, a \in Addr : Accept(c, f, a)) \/ HangUp(c) \/ Reset(c) \/ Elapse(c)
      PROVE  Occasion
  BY <1>5 DEF Occasion, Accept, HangUp, Reset, Elapse
<1>6. CASE UNCHANGED vars
  BY <1>6 DEF vars, Occasion
<1>. QED BY <1>2, <1>4, <1>5, <1>6, ThreadOccasion DEF Next

\* A frame goes to the connection that the number denotes, if that has not been reset.
LEMMA SendReaches ==
    ASSUME Base, NEW m \in Frame, NEW d \in Conn, Send(d, m), NEW x \in Conn
    PROVE  \/ wire'[x] = wire[x]
           \/ wire'[x] = Append(wire[x], m) /\ sock[fd[d]] = x /\ x \notin broken
<1>1. wire \in [Conn -> Seq(Frame)]
  BY DEF Base, Typed, TypeOK
<1>2. CASE SendFails(d)
  BY <1>2 DEF Send
<1>3. CASE ~SendFails(d)
  BY <1>1, <1>3 DEF Send, SendFails
<1>. QED BY <1>2, <1>3

\* A reset is for ever.
LEMMA BrokenStays == [Next]_vars => broken \subseteq broken'
<1>. SUFFICES ASSUME [Next]_vars PROVE broken \subseteq broken'
  OBVIOUS
<1>. USE DEF net
<1>1. CASE UNCHANGED vars
  BY <1>1 DEF vars
<1>2. ASSUME NEW c \in Conn, NEW r \in Requests[c], Serve(c, r) PROVE broken' = broken
  BY <1>2 DEF Serve, RefuseRegister, RejectRegister, Register, RefuseStranger, RefuseMalformed,
              Begin, RefuseUnknown, HandleQuit, DropTooLong
<1>3. ASSUME NEW c \in Conn, ThreadStep(c) PROVE broken' = broken
  BY <1>3 DEF ThreadStep, SendRefusal, Welcome, Restore, SetStatus, Remember, NotifyRestored,
              Touch, CollectTargets, ListUsers, LookupUser, SendNext, CheckAlive, Deliver, Reply,
              EndOfStream, RemoveSession, CloseSocket
<1>4. ASSUME WatchdogStep PROVE broken' = broken
  BY <1>4 DEF WatchdogStep, WakeUp, EndScan, CheckIdle, Mark, Notify
<1>5. ASSUME NEW c \in Conn,
             (\E f \in Fd, a \in Addr : Accept(c, f, a)) \/ HangUp(c) \/ Reset(c) \/ Elapse(c)
      PROVE  broken \subseteq broken'
  BY <1>5 DEF Accept, HangUp, Reset, Elapse
<1>. QED BY <1>1, <1>2, <1>3, <1>4, <1>5 DEF Next

\* A frame written is the last of one connection's wire, and the wires only grow.
LEMMA SendGrows ==
    ASSUME Base, NEW m \in Frame, Send(m.to, m), NEW x \in Conn
    PROVE  \/ wire'[x] = wire[x]
           \/ /\ Len(wire'[x]) = Len(wire[x]) + 1
              /\ wire'[x][Len(wire[x]) + 1] = m
              /\ \A i \in 1..Len(wire[x]) : wire'[x][i] = wire[x][i]
<1>1. wire \in [Conn -> Seq(Frame)]
  BY DEF Base, Typed, TypeOK
<1>2. m.to \in Conn
  BY DEF Frame
<1>3. wire'[x] = wire[x] \/ wire'[x] = Append(wire[x], m)
  BY <1>2, SendReaches
<1>. QED BY <1>1, <1>3

\* The client of d has been told that it is registered.
Welcomed(d) ==
    \E i \in DOMAIN wire[d] :
        wire[d][i].msg = "OK_REGISTER" /\ wire[d][i].to = d /\ wire[d][i].by = d

\* A DM was looked up by a name, and its session has borne that name ever since.
Addressed ==
    \A x \in Conn : \A i \in DOMAIN wire[x] : wire[x][i].msg = "FOR_DM" =>
        /\ wire[x][i].to \in Conn
        /\ wire[x][i].re.user \in Name
        /\ username[wire[x][i].to] = wire[x][i].re.user

\* What the theorems say, with what a session that has been introduced knows: it has
\* been told so, unless its connection has been reset.
WiresInv ==
    /\ \A d \in Conn : Introduced(d) => Welcomed(d) \/ d \in broken
    /\ WelcomeFirst /\ RegisteredFirst /\ Addressed

\* A session keeps its name, and is introduced by the welcome only.
LEMMA IntroducedBy ==
    ASSUME Base, OwnSession, [Next]_vars, NEW d \in Conn
    PROVE  /\ username[d] \in Name => username'[d] = username[d]
           /\ Introduced(d)' => Introduced(d) \/ Welcome(d)
<1>. USE DEF Base, Typed, TypeOK, Introduced, identity
<1>1. CASE UNCHANGED vars
  BY <1>1 DEF vars
<1>2. ASSUME NEW c \in Conn, NEW r \in Requests[c], Register(c, r)
      PROVE  /\ username[d] \in Name => username'[d] = username[d]
             /\ Introduced(d)' => Introduced(d)
  <2>1. /\ username[c] = NoName
        /\ username' = [username EXCEPT ![c] = r.user] /\ pc' = [pc EXCEPT ![c] = "welcome"]
    BY <1>2, RegisterUnnamed DEF Register, Goto
  <2>. QED BY <2>1, ConstantsOK
<1>3. ASSUME NEW c \in Conn, NEW r \in Requests[c], Serve(c, r), ~Register(c, r)
      PROVE  /\ username[d] \in Name => username'[d] = username[d]
             /\ Introduced(d)' => Introduced(d)
  <2>1. pc[c] = "recv" /\ Effect(c)
    BY <1>3, ServeEffect DEF Serve, RefuseRegister, RejectRegister, RefuseStranger, RefuseMalformed,
             Begin, RefuseUnknown, HandleQuit, DropTooLong, Read
  <2>. QED BY <2>1 DEF Effect
<1>4. ASSUME NEW c \in Conn, ThreadStep(c)
      PROVE  /\ username[d] \in Name => username'[d] = username[d]
             /\ Introduced(d)' => Introduced(d) \/ Welcome(d)
  <2>1. Effect(c)
    BY <1>4, ThreadEffect
  <2>2. pc[c] = "welcome" => Welcome(c)
    BY <1>4 DEF ThreadStep, SendRefusal, Restore, NotifyRestored, SetStatus, Remember, Touch,
                CollectTargets, ListUsers,
                LookupUser, SendNext, CheckAlive, Deliver, Reply, EndOfStream, RemoveSession,
                CloseSocket
  <2>. QED BY <2>1, <2>2 DEF Effect
<1>5. ASSUME WatchdogStep
      PROVE  username' = username /\ pc' = pc
  BY <1>5 DEF WatchdogStep, WakeUp, EndScan, CheckIdle, Mark, Notify
<1>6. ASSUME NEW c \in Conn, NEW f \in Fd, NEW a \in Addr, Accept(c, f, a)
      PROVE  username' = username /\ pc[c] = "new" /\ pc' = [pc EXCEPT ![c] = "recv"]
  BY <1>6 DEF Accept, Goto
<1>7. ASSUME NEW c \in Conn, HangUp(c) \/ Reset(c) \/ Elapse(c)
      PROVE  username' = username /\ pc' = pc
  BY <1>7 DEF HangUp, Reset, Elapse
<1>. QED BY <1>1, <1>2, <1>3, <1>4, <1>5, <1>6, <1>7 DEF Next

\* What has been written stays written.
LEMMA WiresGrow ==
    ASSUME Base, Occasion, NEW x \in Conn
    PROVE  /\ wire[x] \in Seq(Frame) /\ wire'[x] \in Seq(Frame)
           /\ Len(wire[x]) <= Len(wire'[x])
           /\ \A i \in 1..Len(wire[x]) : wire'[x][i] = wire[x][i]
<1>1. wire \in [Conn -> Seq(Frame)]
  BY DEF Base, Typed, TypeOK
<1>2. CASE wire' = wire
  BY <1>1, <1>2
<1>3. ASSUME NEW m \in Frame, Send(m.to, m)
      PROVE  wire'[x] = wire[x] \/ wire'[x] = Append(wire[x], m)
  BY <1>3, SendReaches DEF Frame
<1>4. wire'[x] = wire[x] \/ \E m \in Frame : wire'[x] = Append(wire[x], m)
  BY <1>2, <1>3 DEF Occasion
<1>5. ASSUME NEW m \in Frame, wire'[x] = Append(wire[x], m)
      PROVE  /\ wire'[x] \in Seq(Frame)
             /\ Len(wire'[x]) = Len(wire[x]) + 1
             /\ \A i \in 1..Len(wire[x]) : wire'[x][i] = wire[x][i]
  BY <1>1, <1>5
<1>6. wire[x] \in Seq(Frame) /\ Len(wire[x]) \in Nat
  BY <1>1
<1>. QED BY <1>4, <1>5, <1>6

\* A session is introduced by the welcome, which goes to its own connection.
LEMMA WelcomedNext ==
    ASSUME Base, OwnSession, Known, WiresInv, [Next]_vars, NEW d \in Conn, Introduced(d)',
           d \notin broken'
    PROVE  Welcomed(d)'
<1>0. d \notin broken
  BY BrokenStays
<1>1. CASE Introduced(d)
  <2>1. PICK i \in 1..Len(wire[d]) :
           wire[d][i].msg = "OK_REGISTER" /\ wire[d][i].to = d /\ wire[d][i].by = d
    <3>1. wire[d] \in Seq(Frame)
      BY NextOccasion, WiresGrow
    <3>. QED BY <1>0, <1>1, <3>1 DEF WiresInv, Welcomed
  <2>2. i \in DOMAIN wire'[d] /\ wire'[d][i] = wire[d][i]
    BY NextOccasion, WiresGrow
  <2>. QED BY <2>1, <2>2 DEF Welcomed
<1>2. CASE Welcome(d)
  <2>. DEFINE f == NewFrame(d, "OK_REGISTER", d, reads[d], req[d])
  <2>1. wire \in [Conn -> Seq(Frame)] /\ sock[fd[d]] = d /\ d # NoConn
    BY <1>2, ConstantsOK DEF Base, Typed, TypeOK, RegistryInv, Placed, Welcome
  <2>2. wire'[d] = Append(wire[d], f)
    BY <1>0, <1>2, <2>1 DEF Welcome, Send, SendFails
  <2>3. f.msg = "OK_REGISTER" /\ f.to = d /\ f.by = d
    BY DEF NewFrame
  <2>. HIDE DEF f
  <2>4. Len(wire[d]) + 1 \in DOMAIN wire'[d] /\ wire'[d][Len(wire[d]) + 1] = f
    BY <2>1, <2>2
  <2>. QED BY <2>3, <2>4 DEF Welcomed
<1>. QED BY <1>1, <1>2, IntroducedBy

\* A step that writes nothing.
LEMMA WiresSilent ==
    ASSUME Base, OwnSession, WiresInv, [Next]_vars, wire' = wire
    PROVE  (WelcomeFirst /\ RegisteredFirst /\ Addressed)'
<1>1. Addressed'
  <2>1. SUFFICES ASSUME NEW x \in Conn, NEW i \in DOMAIN wire[x], wire[x][i].msg = "FOR_DM"
                 PROVE  /\ wire[x][i].to \in Conn
                        /\ wire[x][i].re.user \in Name
                        /\ username'[wire[x][i].to] = wire[x][i].re.user
    BY DEF Addressed
  <2>2. /\ wire[x][i].to \in Conn
        /\ wire[x][i].re.user \in Name
        /\ username[wire[x][i].to] = wire[x][i].re.user
    BY <2>1 DEF WiresInv, Addressed
  <2>. QED BY <2>2, IntroducedBy
<1>. QED BY <1>1 DEF WiresInv, WelcomeFirst, RegisteredFirst

\* A step that writes a proper frame.
LEMMA WiresWritten ==
    ASSUME Base, WiresInv, NEW m \in Frame, Proper(m), Send(m.to, m), UNCHANGED username
    PROVE  (WelcomeFirst /\ RegisteredFirst /\ Addressed)'
<1>1. \A x \in Conn : wire[x] \in Seq(Frame)
  BY DEF Base, Typed, TypeOK
<1>2. ASSUME NEW x \in Conn, NEW i \in DOMAIN wire'[x]
      PROVE  \/ i \in DOMAIN wire[x] /\ wire'[x][i] = wire[x][i]
             \/ i = Len(wire[x]) + 1 /\ wire'[x][i] = m
  <2>1. wire'[x] = wire[x] \/ wire'[x] = Append(wire[x], m)
    BY SendReaches DEF Frame
  <2>. QED BY <1>1, <1>2, <2>1
<1>3. ASSUME NEW x \in Conn, NEW j \in 1..Len(wire[x])
      PROVE  wire'[x][j] = wire[x][j]
  BY <1>1, <1>3, SendGrows
<1>4. ASSUME NEW x \in Conn, m.to = x, Introduced(x), wire'[x] # wire[x]
      PROVE  \E j \in 1..Len(wire[x]) :
                wire'[x][j].msg = "OK_REGISTER" /\ wire'[x][j].to = x /\ wire'[x][j].by = x
  <2>1. Welcomed(x)
    BY <1>4, SendReaches DEF WiresInv
  <2>. QED BY <1>1, <1>3, <2>1 DEF Welcomed
<1>5. WelcomeFirst'
  <2>1. SUFFICES ASSUME NEW x \in Conn, NEW i \in DOMAIN wire'[x],
                        wire'[x][i].to = x, wire'[x][i].by # x
                 PROVE  \E j \in 1..(i - 1) :
                           wire'[x][j].msg = "OK_REGISTER" /\ wire'[x][j].to = x
    BY DEF WelcomeFirst
  <2>2. CASE i \in DOMAIN wire[x] /\ wire'[x][i] = wire[x][i]
    <3>1. PICK j \in 1..(i - 1) : wire[x][j].msg = "OK_REGISTER" /\ wire[x][j].to = x
      BY <2>1, <2>2 DEF WiresInv, WelcomeFirst
    <3>2. i \in 1..Len(wire[x])
      BY <1>1, <2>2
    <3>. QED BY <1>3, <3>1, <3>2
  <2>3. CASE i = Len(wire[x]) + 1 /\ wire'[x][i] = m
    <3>1. Introduced(x)
      BY <2>1, <2>3 DEF Proper
    <3>2. i - 1 = Len(wire[x]) /\ wire'[x] # wire[x]
      BY <1>1, <2>1, <2>3
    <3>. QED BY <1>4, <2>1, <2>3, <3>1, <3>2
  <2>. QED BY <1>2, <2>2, <2>3
<1>6. RegisteredFirst'
  <2>1. SUFFICES ASSUME NEW x \in Conn, NEW i \in DOMAIN wire'[x],
                        wire'[x][i].by = x, wire'[x][i].to = x, wire'[x][i].msg \notin Refusals
                 PROVE  \E j \in 1..i : wire'[x][j].msg = "OK_REGISTER" /\ wire'[x][j].by = x
    BY DEF RegisteredFirst
  <2>2. CASE i \in DOMAIN wire[x] /\ wire'[x][i] = wire[x][i]
    <3>1. PICK j \in 1..i : wire[x][j].msg = "OK_REGISTER" /\ wire[x][j].by = x
      BY <2>1, <2>2 DEF WiresInv, RegisteredFirst
    <3>2. i \in 1..Len(wire[x])
      BY <1>1, <2>2
    <3>. QED BY <1>3, <3>1, <3>2
  <2>3. CASE i = Len(wire[x]) + 1 /\ wire'[x][i] = m
    <3>1. CASE m.msg = "OK_REGISTER"
      <4>1. i \in 1..i
        BY <1>1, <2>3
      <4>. QED BY <2>1, <2>3, <3>1, <4>1
    <3>2. CASE m.msg # "OK_REGISTER"
      <4>1. Introduced(x)
        BY <2>1, <2>3, <3>2 DEF Proper
      <4>4. wire'[x] # wire[x]
        BY <1>1, <2>1, <2>3
      <4>2. PICK j \in 1..Len(wire[x]) :
               wire'[x][j].msg = "OK_REGISTER" /\ wire'[x][j].by = x
        BY <1>4, <2>1, <2>3, <4>1, <4>4
      <4>3. j \in 1..i
        BY <1>1, <2>3
      <4>. QED BY <4>2, <4>3
    <3>. QED BY <3>1, <3>2
  <2>. QED BY <1>2, <2>2, <2>3
<1>7. Addressed'
  <2>1. SUFFICES ASSUME NEW x \in Conn, NEW i \in DOMAIN wire'[x], wire'[x][i].msg = "FOR_DM"
                 PROVE  /\ wire'[x][i].to \in Conn
                        /\ wire'[x][i].re.user \in Name
                        /\ username'[wire'[x][i].to] = wire'[x][i].re.user
    BY DEF Addressed
  <2>2. CASE i \in DOMAIN wire[x] /\ wire'[x][i] = wire[x][i]
    BY <2>1, <2>2 DEF WiresInv, Addressed
  <2>3. CASE wire'[x][i] = m
    BY <2>1, <2>3 DEF Proper, Introduced, Refusals, Frame
  <2>. QED BY <1>2, <2>2, <2>3
<1>. QED BY <1>5, <1>6, <1>7

\* All of it is inductive.
ServerInv == Base /\ OwnSession /\ Known /\ WiresInv

\* The invariants together: initially, ...
LEMMA ServerInit == Init => ServerInv
<1>. SUFFICES ASSUME Init PROVE ServerInv
  OBVIOUS
<1>1. Base
  BY TypedInit, RegistryInit DEF Base
<1>2. OwnSession
  BY DEF Init, OwnSession
<1>3. Known
  BY DEF Init, Known, Handling
<1>4. WiresInv
  BY ConstantsOK DEF Init, WiresInv, Introduced, WelcomeFirst, RegisteredFirst, Addressed
<1>. QED BY <1>1, <1>2, <1>3, <1>4 DEF ServerInv

\* ... in every step, ...
LEMMA ServerNext == ServerInv /\ [Next]_vars => ServerInv'
<1>. SUFFICES ASSUME ServerInv, [Next]_vars PROVE ServerInv'
  OBVIOUS
<1>. USE DEF ServerInv
<1>1. Base'
  BY TypedNext, RegistryNext DEF Base
<1>2. OwnSession' /\ Known'
  BY OwnSessionNext, KnownNext
<1>3. Occasion
  BY NextOccasion
<1>4. (WelcomeFirst /\ RegisteredFirst /\ Addressed)'
  BY <1>3, WiresSilent, WiresWritten DEF Occasion
<1>5. \A d \in Conn : Introduced(d)' => Welcomed(d)' \/ d \in broken'
  BY WelcomedNext
<1>. QED BY <1>1, <1>2, <1>4, <1>5 DEF WiresInv

\* ... and so always.
LEMMA ServerInvariant == Spec => []ServerInv
  BY ServerInit, ServerNext, PTL DEF Spec

\* Nobody writes to a client, other than its own thread, before the client has
\* been told that it is registered.
THEOREM WelcomeAlwaysFirst == Spec => []WelcomeFirst
<1>1. ServerInv => WelcomeFirst
  BY DEF ServerInv, WiresInv
<1>. QED BY <1>1, ServerInvariant, PTL

\* A connection that has not registered is answered with refusals only.
THEOREM StrangersOnlyRefused == Spec => []RegisteredFirst
<1>1. ServerInv => RegisteredFirst
  BY DEF ServerInv, WiresInv
<1>. QED BY <1>1, ServerInvariant, PTL

\* A DM is written for a session that bears the name it was sent to, although
\* the registry changes between the lookup and the write.
THEOREM DmForItsAddressee == Spec => []DmAddressee
<1>1. ServerInv => DmAddressee
  BY DEF ServerInv, WiresInv, Addressed, DmAddressee, AllFrames, Frames
<1>. QED BY <1>1, ServerInvariant, PTL

-----------------------------------------------------------------------------
(* What goes astray *)

\* A descriptor number denotes a connection whose thread was given that number.
Owned ==
    \A f \in Fd : sock[f] # NoConn => pc[sock[f]] # "new" /\ fd[sock[f]] = f

\* A thread is given its number when it starts, and once it has closed it, it
\* does nothing more.
LEMMA NumberKept ==
    ASSUME Base, [Next]_vars, NEW c \in Conn
    PROVE  /\ pc[c] # "new" => pc'[c] # "new" /\ fd'[c] = fd[c]
           /\ pc[c] = "closed" => pc'[c] = "closed"
<1>. USE DEF Base, Typed, TypeOK
<1>1. CASE Quiet
  BY <1>1 DEF Quiet
<1>2. ASSUME NEW x \in Conn, NEW f \in Fd, NEW a \in Addr, Accept(x, f, a)
      PROVE  /\ pc[c] # "new" => pc'[c] # "new" /\ fd'[c] = fd[c]
             /\ pc[c] = "closed" => pc'[c] = "closed"
  BY <1>2 DEF Accept, Goto
<1>3. ASSUME NEW x \in Conn, NEW r \in Requests[x], Register(x, r)
      PROVE  /\ pc[c] # "new" => pc'[c] # "new" /\ fd'[c] = fd[c]
             /\ pc[c] = "closed" => pc'[c] = "closed"
  BY <1>3 DEF Register, Read, Goto, net
<1>4. ASSUME NEW x \in Conn, RemoveSession(x) \/ CloseSocket(x)
      PROVE  /\ pc[c] # "new" => pc'[c] # "new" /\ fd'[c] = fd[c]
             /\ pc[c] = "closed" => pc'[c] = "closed"
  BY <1>4 DEF RemoveSession, CloseSocket, Return, Goto, net
<1>. QED BY <1>1, <1>2, <1>3, <1>4, NextQuiet

\* The kernel gives a number to one connection at a time.
LEMMA OwnedNext == Base /\ Owned /\ [Next]_vars => Owned'
<1>. SUFFICES ASSUME Base, Owned, [Next]_vars, NEW g \in Fd, sock'[g] # NoConn
              PROVE  pc'[sock'[g]] # "new" /\ fd'[sock'[g]] = g
  BY DEF Owned
<1>. USE DEF Base, Typed, TypeOK
<1>1. CASE sock'[g] = sock[g]
  BY <1>1, NumberKept DEF Owned
<1>2. ASSUME NEW x \in Conn, NEW f \in Fd, NEW a \in Addr, Accept(x, f, a), sock'[g] # sock[g]
      PROVE  pc'[sock'[g]] # "new" /\ fd'[sock'[g]] = g
  BY <1>2 DEF Accept, Goto
<1>3. ASSUME Quiet \/ \E x \in Conn : \/ \E r \in Requests[x] : Register(x, r)
                                      \/ RemoveSession(x) \/ CloseSocket(x)
      PROVE  sock'[g] = sock[g]
  BY <1>3 DEF Quiet, Register, RemoveSession, CloseSocket, net
<1>. QED BY <1>1, <1>2, <1>3, NextQuiet

\* A frame that is written to another connection than the one it is for.
LEMMA AstrayLate ==
    ASSUME ServerInv, Owned, NEW m \in Frame, Proper(m),
           NEW x \in Conn, sock[fd[m.to]] = x, m.to # x
    PROVE  /\ m.by # m.to /\ m.msg \in Delivery \cup {"AUTO_INACTIVE"}
           /\ pc[m.to] = "closed" /\ fd[x] = fd[m.to]
<1>. USE DEF ServerInv, Base, Typed, TypeOK
<1>1. m.to \in Conn /\ x # NoConn
  BY ConstantsOK DEF Frame
<1>2. pc[m.to] \in {"new", "closed"}
  BY <1>1 DEF RegistryInv, Placed
<1>3. m.by # m.to /\ m.msg \in Delivery \cup {"AUTO_INACTIVE"}
  BY <1>2 DEF Proper
<1>4. pc[m.to] # "new"
  <2>1. username[m.to] \in Name
    BY <1>3 DEF Proper, Introduced
  <2>. QED BY <1>1, <2>1, ConstantsOK DEF OwnSession
<1>5. fd[m.to] \in Fd
  BY <1>1, <1>4 DEF RegistryInv, Placed
<1>. QED BY <1>1, <1>2, <1>3, <1>4, <1>5 DEF Owned

\* What has gone astray stays explained: threads that have ended do not begin
\* again, and running ones keep their numbers.
Strays ==
    \A x \in Conn : \A i \in DOMAIN wire[x] : wire[x][i].to # x =>
        /\ wire[x][i].to \in Conn /\ wire[x][i].by # wire[x][i].to
        /\ wire[x][i].msg \in Delivery \cup {"AUTO_INACTIVE"}
        /\ pc[wire[x][i].to] = "closed"
        /\ pc[x] # "new" /\ fd[x] = fd[wire[x][i].to]

\* Every step keeps it.
LEMMA StraysNext == ServerInv /\ Owned /\ Strays /\ [Next]_vars => Strays'
<1>. SUFFICES ASSUME ServerInv, Owned, Strays, [Next]_vars,
                     NEW x \in Conn, NEW i \in DOMAIN wire'[x], wire'[x][i].to # x
              PROVE  /\ wire'[x][i].to \in Conn /\ wire'[x][i].by # wire'[x][i].to
                     /\ wire'[x][i].msg \in Delivery \cup {"AUTO_INACTIVE"}
                     /\ pc'[wire'[x][i].to] = "closed"
                     /\ pc'[x] # "new" /\ fd'[x] = fd'[wire'[x][i].to]
  BY DEF Strays
<1>. USE DEF ServerInv
<1>1. CASE i \in DOMAIN wire[x] /\ wire'[x][i] = wire[x][i]
  <2>1. /\ wire[x][i].to \in Conn /\ wire[x][i].by # wire[x][i].to
        /\ wire[x][i].msg \in Delivery \cup {"AUTO_INACTIVE"}
        /\ pc[wire[x][i].to] = "closed"
        /\ pc[x] # "new" /\ fd[x] = fd[wire[x][i].to]
    BY <1>1 DEF Strays
  <2>. QED BY <1>1, <2>1, NumberKept
<1>2. ASSUME NEW m \in Frame, Proper(m), Send(m.to, m), UNCHANGED <<sock, fd, username>>,
             ~(i \in DOMAIN wire[x] /\ wire'[x][i] = wire[x][i])
      PROVE  /\ wire'[x][i].to \in Conn /\ wire'[x][i].by # wire'[x][i].to
             /\ wire'[x][i].msg \in Delivery \cup {"AUTO_INACTIVE"}
             /\ pc'[wire'[x][i].to] = "closed"
             /\ pc'[x] # "new" /\ fd'[x] = fd'[wire'[x][i].to]
  <2>1. wire \in [Conn -> Seq(Frame)]
    BY DEF Base, Typed, TypeOK
  <2>2. sock[fd[m.to]] = x /\ wire'[x] = Append(wire[x], m)
    BY <1>2, <2>1, SendReaches DEF Frame
  <2>3. wire'[x][i] = m
    BY <1>2, <2>1, <2>2
  <2>4. m.to \in Conn /\ m.to # x
    BY <2>3 DEF Frame
  <2>5. /\ m.by # m.to /\ m.msg \in Delivery \cup {"AUTO_INACTIVE"}
        /\ pc[m.to] = "closed" /\ fd[x] = fd[m.to]
    BY <1>2, <2>2, <2>4, AstrayLate
  <2>6. pc[x] # "new"
    BY <2>2, <2>4, <2>5, ConstantsOK DEF Owned, Base, Typed, RegistryInv, Placed
  <2>. QED BY <1>2, <2>3, <2>4, <2>5, <2>6, NumberKept
<1>. QED BY <1>1, <1>2, NextOccasion DEF Occasion

\* What does not reach the connection it is written for is another thread's
\* message or notice, and comes after the addressee's thread has closed the
\* descriptor that now denotes the connection it reaches.
THEOREM StraysAlwaysLate == Spec => []StraysAreLate
<1>1. Init => ServerInv /\ Owned /\ Strays
  <2>1. Init => Owned /\ Strays
    BY DEF Init, Owned, Strays
  <2>. QED BY <2>1, ServerInit
<1>2. ServerInv /\ Owned /\ Strays /\ [Next]_vars => (ServerInv /\ Owned /\ Strays)'
  BY ServerNext, OwnedNext, StraysNext DEF ServerInv
<1>3. Strays => StraysAreLate
  BY DEF Strays, StraysAreLate, Frames
<1>. QED BY <1>1, <1>2, <1>3, PTL DEF Spec

=============================================================================
