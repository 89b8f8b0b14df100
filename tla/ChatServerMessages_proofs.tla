---------------------- MODULE ChatServerMessages_proofs ----------------------
(***************************************************************************)
(* Theorems about the messages of ChatServer, for any clients,             *)
(* descriptors, names, addresses and requests: they arrive in order and    *)
(* once, a DM that is confirmed has been written or had nobody to go to,   *)
(* and each request is answered once.                                      *)
(***************************************************************************)
EXTENDS ChatServerWires_proofs, FiniteSetTheorems

-----------------------------------------------------------------------------
(* Order *)

\* Thread c has yet to write the message of its request to d.
Ahead(c, d) ==
    \/ pc[c] \in {"welcome", "restore", "setstatus", "remember", "restored", "touch", "collect",
                  "lookup", "check", "deliver"}
    \/ pc[c] = "broadcast" /\ d \in targets[c]

\* The messages of a thread bear the number of its current request, or an
\* earlier one if that message has yet to be written.
Numbered ==
    \A x, c, d \in Conn : \A i \in DOMAIN wire[x] :
        wire[x][i].msg \in Delivery /\ wire[x][i].by = c /\ wire[x][i].to = d =>
            /\ wire[x][i].n <= reads[c]
            /\ Ahead(c, d) => wire[x][i].n < reads[c]

\* A thread comes to have something to write by reading a request.
Paced(c) ==
    \/ reads'[c] = reads[c] /\ \A d \in Conn : Ahead(c, d)' => Ahead(c, d)
    \/ reads'[c] = reads[c] + 1

\* Every step keeps every thread to that pace.
LEMMA NextPaced ==
    ASSUME Base, [Next]_vars, NEW c \in Conn
    PROVE  Paced(c)
<1>6. ASSUME NEW b \in Conn, ThreadStep(b) PROVE Effect(b)
  BY <1>6, ThreadEffect
<1>. USE DEF Base, Typed, TypeOK, Paced, Ahead, locals
<1>1. CASE UNCHANGED vars
  BY <1>1 DEF vars
<1>2. ASSUME NEW b \in Conn, NEW r \in Requests[b], Serve(b, r) PROVE Paced(c)
  <2>1. Read(b, r)
    BY <1>2 DEF Serve, RefuseRegister, RejectRegister, Register, RefuseStranger, RefuseMalformed,
                Begin, RefuseUnknown, HandleQuit, DropTooLong
  <2>2. b # c => pc'[c] = pc[c] /\ targets'[c] = targets[c]
    BY <1>2 DEF Serve, RefuseRegister, RejectRegister, Register, RefuseStranger, RefuseMalformed,
                Begin, RefuseUnknown, HandleQuit, DropTooLong, Answer, Goto
  <2>. QED BY <2>1, <2>2 DEF Read
<1>3. ASSUME NEW b \in Conn, ThreadStep(b) PROVE Paced(c)
  <2>1. reads' = reads
    BY <1>3 DEF ThreadStep, SendRefusal, Welcome, Restore, NotifyRestored, SetStatus, Remember,
                Touch, CollectTargets,
                ListUsers, LookupUser, SendNext, CheckAlive, Deliver, Reply, EndOfStream,
                RemoveSession, CloseSocket, Return
  <2>2. CASE b # c
    <3>1. pc'[c] = pc[c] /\ targets'[c] = targets[c]
      BY <1>6, <1>3, <2>2 DEF Effect
    <3>. QED BY <2>1, <3>1
  <2>3. CASE b = c /\ pc'[c] \notin {"broadcast", "restore", "setstatus", "remember", "restored", "touch",
                                     "collect", "lookup", "check", "deliver"}
    <3>1. pc'[c] # "welcome"
      BY <1>3, <2>3, ThreadEffect DEF Effect
    <3>. QED BY <2>1, <2>3, <3>1
  <2>4. CASE b = c /\ pc'[c] \in {"broadcast", "restore", "setstatus", "remember", "restored", "touch",
                                  "collect", "lookup", "check", "deliver"}
    <3>1. \/ pc[c] \in {"restore", "setstatus", "remember", "restored", "touch", "collect", "lookup", "check"}
          \/ pc[c] = "broadcast" /\ pc'[c] = "broadcast" /\ targets'[c] \subseteq targets[c]
      BY <1>3, <2>4 DEF ThreadStep, SendRefusal, Welcome, Restore, NotifyRestored, SetStatus,
                        Remember, Touch,
                CollectTargets, ListUsers, LookupUser, SendNext, Unsent, CheckAlive, Deliver, Reply,
                AfterReply, EndOfStream, AfterStream, RemoveSession, CloseSocket, Return, Answer, Goto
    <3>. QED BY <2>1, <3>1
  <2>. QED BY <2>2, <2>3, <2>4
<1>4. ASSUME WatchdogStep PROVE Paced(c)
  BY <1>4 DEF WatchdogStep, WakeUp, EndScan, CheckIdle, Mark, Notify
<1>5. ASSUME NEW b \in Conn,
             (\E f \in Fd, a \in Addr : Accept(b, f, a)) \/ HangUp(b) \/ Reset(b) \/ Elapse(b)
      PROVE  Paced(c)
  <2>1. reads' = reads /\ targets' = targets
    BY <1>5 DEF Accept, HangUp, Reset, Elapse
  <2>2. pc'[c] = pc[c] \/ pc'[c] = "recv"
    BY <1>5 DEF Accept, HangUp, Reset, Elapse, Goto
  <2>. QED BY <2>1, <2>2
<1>. QED BY <1>1, <1>2, <1>3, <1>4, <1>5 DEF Next

\* "DM sent", by a thread that is about to say so.
Confirming(m) ==
    \E c \in Conn : /\ m.by = c /\ m.n = reads[c] /\ m.re = req[c]
                    /\ pc[c] = "reply" /\ reply[c] = "OK_DM_SENT"

\* A step writes nothing, or a frame that is no message, or a message that its
\* thread had to write and then has not.
Spoken ==
    \/ wire' = wire
    \/ \E m \in Frame : /\ Send(m.to, m) /\ m.msg \notin Delivery
                        /\ m.msg = "OK_DM_SENT" => Confirming(m)
    \/ \E c, d \in Conn : \E m \in Frame :
          /\ Send(m.to, m) /\ m.msg \in Delivery
          /\ m.by = c /\ m.to = d /\ m.n = reads[c]
          /\ reads' = reads /\ Ahead(c, d) /\ ~Ahead(c, d)'

\* The parts of a frame.
LEMMA NewFrameParts ==
    ASSUME NEW c \in Conn \cup {Watchdog}, NEW m \in Messages, NEW d \in Conn,
           NEW k \in Nat, NEW r \in RequestType
    PROVE  \E f \in Frame : /\ f = NewFrame(c, m, d, k, r)
                            /\ f.msg = m /\ f.to = d /\ f.by = c /\ f.n = k /\ f.re = r
<1>1. NewFrame(c, m, d, k, r) \in Frame
  BY NewFrameType
<1>. QED BY <1>1 DEF NewFrame

\* The parts of a frame that a thread writes in its handler.
LEMMA ThreadFrame ==
    ASSUME Base, NEW c \in Conn, NEW d \in Conn, NEW m \in Messages
    PROVE  \E f \in Frame : /\ f = NewFrame(c, m, d, reads[c], req[c]) /\ f.msg = m
                            /\ f.to = d /\ f.by = c /\ f.n = reads[c] /\ f.re = req[c]
<1>1. reads[c] \in Nat /\ req[c] \in RequestType
  BY DEF Base, Typed, TypeOK
<1>. QED BY <1>1, NewFrameParts

\* What a thread writes later than at once is the message of its request.
LEMMA ThreadSpoken ==
    ASSUME Base, Known, NEW c \in Conn, ThreadStep(c)
    PROVE  Spoken
<1>15. ASSUME NEW d \in Conn, NEW m \in Messages
       PROVE  \E f \in Frame : /\ f = NewFrame(c, m, d, reads[c], req[c]) /\ f.msg = m
                              /\ f.to = d /\ f.by = c /\ f.n = reads[c] /\ f.re = req[c]
  BY ThreadFrame
<1>. USE DEF Base, Typed, TypeOK
<1>1. ASSUME NEW m \in Messages \ Delivery, Send(c, NewFrame(c, m, c, reads[c], req[c])),
             m = "OK_DM_SENT" => pc[c] = "reply" /\ reply[c] = "OK_DM_SENT"
      PROVE  Spoken
  <2>1. PICK f \in Frame : /\ f = NewFrame(c, m, c, reads[c], req[c]) /\ f.msg = m /\ f.to = c
                           /\ f.by = c /\ f.n = reads[c] /\ f.re = req[c]
    BY <1>1, <1>15
  <2>2. f.msg = "OK_DM_SENT" => Confirming(f)
    BY <1>1, <2>1 DEF Confirming
  <2>. QED BY <1>1, <2>1, <2>2 DEF Spoken
<1>2. ASSUME NEW d \in Conn, NEW m \in Messages, m \in Delivery,
             Send(d, NewFrame(c, m, d, reads[c], req[c])), reads' = reads, Ahead(c, d), ~Ahead(c, d)'
      PROVE  Spoken
  <2>1. PICK f \in Frame : /\ f = NewFrame(c, m, d, reads[c], req[c])
                           /\ f.msg = m /\ f.to = d /\ f.by = c /\ f.n = reads[c]
    BY <1>2, <1>15
  <2>. QED BY <1>2, <2>1 DEF Spoken
<1>3. CASE Welcome(c) \/ NotifyRestored(c)
  BY <1>1, <1>3 DEF Welcome, NotifyRestored, Messages, Delivery
<1>4. CASE Reply(c)
  <2>1. reply[c] \in Messages \ Delivery
    BY DEF Messages, Answers, Delivery
  <2>. QED BY <1>1, <1>4, <2>1 DEF Reply
<1>9. CASE SendRefusal(c)
  <2>1. reply[c] \in Refusals
    BY <1>9 DEF SendRefusal, Known
  <2>2. reply[c] \in Messages \ Delivery /\ reply[c] # "OK_DM_SENT"
    BY <2>1 DEF Refusals, Messages, Answers, Delivery
  <2>. QED BY <1>1, <1>9, <2>2 DEF SendRefusal
<1>5. ASSUME NEW d \in Conn, SendNext(c, d) PROVE Spoken
  <2>1. reads' = reads
    BY <1>5 DEF SendNext, Return
  <2>2. Ahead(c, d)
    BY <1>5 DEF SendNext, Ahead
  <2>3. ~Ahead(c, d)'
    <3>1. CASE Unsent(c, d) = {}
      BY <1>5, <3>1 DEF SendNext, Return, Goto, Ahead
    <3>2. CASE Unsent(c, d) # {}
      <4>1. pc[c] = "broadcast" /\ pc' = pc /\ targets' = [targets EXCEPT ![c] = Unsent(c, d)]
        BY <1>5, <3>2 DEF SendNext
      <4>2. d \notin targets'[c]
        BY <4>1 DEF Unsent
      <4>. QED BY <4>1, <4>2 DEF Ahead
    <3>. QED BY <3>1, <3>2
  <2>4. Send(d, NewFrame(c, "BROADCAST_DELIVERY", d, reads[c], req[c]))
    BY <1>5 DEF SendNext
  <2>5. "BROADCAST_DELIVERY" \in Messages /\ "BROADCAST_DELIVERY" \in Delivery
    BY DEF Messages, Delivery
  <2>. QED BY <1>2, <2>1, <2>2, <2>3, <2>4, <2>5
<1>6. ASSUME NEW d \in Conn, Deliver(c, d) PROVE Spoken
  <2>1. reads' = reads /\ Ahead(c, d) /\ ~Ahead(c, d)'
    BY <1>6 DEF Deliver, Answer, Goto, Ahead
  <2>2. Send(d, NewFrame(c, "FOR_DM", d, reads[c], req[c])) /\ "FOR_DM" \in Messages
        /\ "FOR_DM" \in Delivery
    BY <1>6 DEF Deliver, Messages, Delivery
  <2>. QED BY <1>2, <2>1, <2>2
<1>7. CASE Restore(c) \/ SetStatus(c) \/ Remember(c) \/ Touch(c) \/ CollectTargets(c)
             \/ ListUsers(c) \/ LookupUser(c) \/ EndOfStream(c) \/ RemoveSession(c)
             \/ CloseSocket(c)
  BY <1>7 DEF Spoken, Restore, SetStatus, Remember, Touch, CollectTargets, ListUsers, LookupUser,
              EndOfStream, RemoveSession, CloseSocket
<1>8. ASSUME NEW d \in Conn, CheckAlive(c, d) PROVE Spoken
  BY <1>8 DEF Spoken, CheckAlive
<1>. QED BY <1>3, <1>4, <1>5, <1>6, <1>7, <1>8, <1>9 DEF ThreadStep

\* The other steps write no confirmation, and no message of a client.
LEMMA NextSpoken == Base /\ Known /\ [Next]_vars => Spoken
<1>. SUFFICES ASSUME Base, Known, [Next]_vars PROVE Spoken
  OBVIOUS
<1>2. ASSUME NEW c \in Conn, NEW r \in Requests[c], Serve(c, r) PROVE Spoken
  BY <1>2 DEF Serve, Spoken, RefuseRegister, RejectRegister, Register, RefuseStranger,
              RefuseMalformed,
                    Begin, RefuseUnknown, HandleQuit, DropTooLong
<1>3. ASSUME NEW d \in Conn, Notify(d) PROVE Spoken
  <2>1. "AUTO_INACTIVE" \in Messages /\ "AUTO_INACTIVE" \notin Delivery
    BY DEF Messages, Delivery
  <2>2. PICK f \in Frame : /\ f = NewFrame(Watchdog, "AUTO_INACTIVE", d, 0, NoRequest)
                           /\ f.to = d /\ f.msg = "AUTO_INACTIVE"
    <3>1. Watchdog \in Conn \cup {Watchdog} /\ 0 \in Nat
      OBVIOUS
    <3>. QED BY <2>1, <3>1, NewFrameParts, NoRequestType
  <2>. QED BY <1>3, <2>1, <2>2 DEF Notify, Spoken
<1>4. ASSUME WatchdogStep PROVE Spoken
  BY <1>3, <1>4 DEF WatchdogStep, Spoken, WakeUp, EndScan, CheckIdle, Mark
<1>5. ASSUME NEW c \in Conn,
             (\E f \in Fd, a \in Addr : Accept(c, f, a)) \/ HangUp(c) \/ Reset(c) \/ Elapse(c)
      PROVE  Spoken
  BY <1>5 DEF Spoken, Accept, HangUp, Reset, Elapse
<1>6. CASE UNCHANGED vars
  BY <1>6 DEF vars, Spoken
<1>. QED BY <1>2, <1>4, <1>5, <1>6, ThreadSpoken DEF Next

\* A wire that has grown ends with the frame that was sent.
LEMMA WrittenLast ==
    ASSUME Base, NEW m \in Frame, Send(m.to, m), NEW x \in Conn, NEW i \in DOMAIN wire'[x]
    PROVE  \/ i \in 1..Len(wire[x]) /\ wire'[x][i] = wire[x][i]
           \/ i = Len(wire[x]) + 1 /\ wire'[x][i] = m
<1>1. wire[x] \in Seq(Frame)
  BY DEF Base, Typed, TypeOK
<1>2. wire'[x] = wire[x] \/ wire'[x] = Append(wire[x], m)
  BY SendReaches DEF Frame
<1>. QED BY <1>1, <1>2

\* Messages written before keep to their numbers as the threads read on.
LEMMA NumberStays ==
    ASSUME Base, [Next]_vars, NEW c \in Conn, NEW d \in Conn, NEW n \in Nat,
           n <= reads[c], Ahead(c, d) => n < reads[c]
    PROVE  n <= reads'[c] /\ (Ahead(c, d)' => n < reads'[c])
<1>1. reads[c] \in Nat
  BY DEF Base, Typed, TypeOK
<1>. QED BY <1>1, NextPaced DEF Paced

\* The numbers on the wires stay in step with the requests.
LEMMA NumberedNext == Base /\ Known /\ Numbered /\ [Next]_vars => Numbered'
<1>. SUFFICES ASSUME Base, Known, Numbered, [Next]_vars,
                     NEW x \in Conn, NEW c \in Conn, NEW d \in Conn, NEW i \in DOMAIN wire'[x],
                     wire'[x][i].msg \in Delivery, wire'[x][i].by = c, wire'[x][i].to = d
              PROVE  /\ wire'[x][i].n <= reads'[c]
                     /\ Ahead(c, d)' => wire'[x][i].n < reads'[c]
  BY DEF Numbered
<1>1. wire[x] \in Seq(Frame) /\ reads[c] \in Nat
  BY DEF Base, Typed, TypeOK
<1>2. CASE i \in DOMAIN wire[x] /\ wire'[x][i] = wire[x][i]
  <2>1. wire[x][i].n \in Nat
    <3>1. wire[x][i] \in Frame
      BY <1>1, <1>2
    <3>. QED BY <3>1 DEF Frame
  <2>2. wire[x][i].n <= reads[c] /\ (Ahead(c, d) => wire[x][i].n < reads[c])
    BY <1>2 DEF Numbered
  <2>. QED BY <1>2, <2>1, <2>2, NumberStays
<1>3. CASE wire' = wire
  BY <1>2, <1>3
<1>4. ASSUME NEW m \in Frame, Send(m.to, m), ~(i \in DOMAIN wire[x] /\ wire'[x][i] = wire[x][i])
      PROVE  wire'[x][i] = m
  BY <1>1, <1>4, WrittenLast
<1>5. ASSUME NEW m \in Frame, Send(m.to, m), m.msg \notin Delivery
      PROVE  i \in DOMAIN wire[x] /\ wire'[x][i] = wire[x][i]
  BY <1>4, <1>5
<1>6. ASSUME NEW b \in Conn, NEW e \in Conn, NEW m \in Frame, Send(m.to, m), m.by = b, m.to = e,
             m.n = reads[b], reads' = reads, ~Ahead(b, e)',
             ~(i \in DOMAIN wire[x] /\ wire'[x][i] = wire[x][i])
      PROVE  /\ wire'[x][i].n <= reads'[c]
             /\ Ahead(c, d)' => wire'[x][i].n < reads'[c]
  <2>1. wire'[x][i] = m /\ b = c /\ e = d
    BY <1>4, <1>6
  <2>. QED BY <1>1, <1>6, <2>1
<1>. QED BY <1>2, <1>3, <1>5, <1>6, NextSpoken DEF Spoken

\* A message that is appended bears a higher number than those before it.
LEMMA InOrderNext == Base /\ Known /\ Numbered /\ InOrderOnce /\ [Next]_vars => InOrderOnce'
<1>. SUFFICES ASSUME Base, Known, Numbered, InOrderOnce, [Next]_vars,
                     NEW x \in Conn, NEW j \in DOMAIN wire'[x], NEW i \in 1..(j - 1),
                     wire'[x][i].msg \in Delivery, wire'[x][j].msg \in Delivery,
                     wire'[x][i].by = wire'[x][j].by, wire'[x][i].to = wire'[x][j].to
              PROVE  wire'[x][i].n < wire'[x][j].n
  BY DEF InOrderOnce
<1>1. wire[x] \in Seq(Frame)
  BY DEF Base, Typed, TypeOK
<1>2. CASE j \in DOMAIN wire[x] /\ wire'[x][j] = wire[x][j] /\ wire'[x][i] = wire[x][i]
  BY <1>2 DEF InOrderOnce
<1>3. CASE wire' = wire
  BY <1>2, <1>3
<1>4. ASSUME NEW m \in Frame, Send(m.to, m),
             ~(j \in DOMAIN wire[x] /\ wire'[x][j] = wire[x][j] /\ wire'[x][i] = wire[x][i])
      PROVE  wire'[x][j] = m /\ i \in DOMAIN wire[x] /\ wire'[x][i] = wire[x][i]
  <2>1. i \in DOMAIN wire'[x] /\ i < j /\ j \in Nat /\ i \in Nat
    <3>1. wire'[x] \in Seq(Frame)
      BY <1>4, SendType DEF Base, Typed, Frame
    <3>2. DOMAIN wire'[x] = 1..Len(wire'[x]) /\ Len(wire'[x]) \in Nat
      BY <3>1
    <3>. QED BY <3>2
  <2>. QED BY <1>1, <1>4, <2>1, WrittenLast
<1>5. ASSUME NEW m \in Frame, Send(m.to, m), m.msg \notin Delivery
      PROVE  j \in DOMAIN wire[x] /\ wire'[x][j] = wire[x][j] /\ wire'[x][i] = wire[x][i]
  BY <1>4, <1>5
<1>6. ASSUME NEW b \in Conn, NEW e \in Conn, NEW m \in Frame, Send(m.to, m), m.by = b, m.to = e,
             m.n = reads[b], Ahead(b, e),
             ~(j \in DOMAIN wire[x] /\ wire'[x][j] = wire[x][j] /\ wire'[x][i] = wire[x][i])
      PROVE  wire'[x][i].n < wire'[x][j].n
  <2>1. wire'[x][j] = m /\ i \in DOMAIN wire[x] /\ wire'[x][i] = wire[x][i]
    BY <1>4, <1>6
  <2>. QED BY <1>6, <2>1 DEF Numbered
<1>. QED BY <1>2, <1>3, <1>5, <1>6, NextSpoken DEF Spoken

\* What one client sends, another gets in the order it was sent, and once.
THEOREM AlwaysInOrderOnce == Spec => []InOrderOnce
<1>1. Init => Numbered /\ InOrderOnce
  BY DEF Init, Numbered, InOrderOnce
<1>. DEFINE Inv == ServerInv /\ Numbered /\ InOrderOnce
<1>2. Init => Inv
  BY <1>1, ServerInit
<1>3. Inv /\ [Next]_vars => Inv'
  BY NumberedNext, InOrderNext, ServerNext DEF ServerInv
<1>4. Inv => InOrderOnce
  OBVIOUS
<1>. HIDE DEF Inv
<1>. QED BY <1>2, <1>3, <1>4, PTL DEF Spec

-----------------------------------------------------------------------------
(* Confirmed *)

\* A session that is alive has a thread that has yet to remove it.
AliveNamed ==
    \A d \in Conn : alive[d] => username[d] # NoName /\ pc[d] \notin {"new", "close", "closed"}

\* The message of the n-th request of b has been written for d.
Written(b, n, d) ==
    \E x \in Conn : \E i \in DOMAIN wire[x] :
        /\ wire[x][i].msg = "FOR_DM" /\ wire[x][i].by = b
        /\ wire[x][i].n = n /\ wire[x][i].to = d

\* The message of the n-th request of b to a user named u has been written, or
\* had nobody to go to, or could not be sent.
Settled(b, n, u) ==
    \E d \in Conn :
        username[d] = u /\ u \in Name /\ (~alive[d] \/ d \in broken \/ Written(b, n, d))

\* A thread says "DM sent", or is about to, of a message that is settled.
Confirmed ==
    /\ \A c \in Conn : reply[c] = "OK_DM_SENT" =>
          pc[c] = "reply" /\ Settled(c, reads[c], req[c].user)
    /\ \A x \in Conn, m \in Frame : \A i \in DOMAIN wire[x] :
          wire[x][i] = m /\ m.msg = "OK_DM_SENT" => Settled(m.by, m.n, m.re.user)

\* A session is made alive with its name, and dies when it is removed, or before.
LEMMA AliveNamedNext == Base /\ OwnSession /\ AliveNamed /\ [Next]_vars => AliveNamed'
<1>. SUFFICES ASSUME Base, OwnSession, AliveNamed, [Next]_vars, NEW d \in Conn, alive'[d]
              PROVE  username'[d] # NoName /\ pc'[d] \notin {"new", "close", "closed"}
  BY DEF AliveNamed
<1>. USE DEF Base, Typed, TypeOK
<1>1. CASE Quiet
  BY <1>1 DEF Quiet, AliveNamed
<1>2. ASSUME NEW c \in Conn, NEW f \in Fd, NEW a \in Addr, Accept(c, f, a)
      PROVE  username'[d] # NoName /\ pc'[d] \notin {"new", "close", "closed"}
  BY <1>2 DEF Accept, Goto, identity, AliveNamed
<1>3. ASSUME NEW c \in Conn, NEW r \in Requests[c], Register(c, r)
      PROVE  username'[d] # NoName /\ pc'[d] \notin {"new", "close", "closed"}
  <2>1. /\ username' = [username EXCEPT ![c] = r.user] /\ r.user # NoName
        /\ pc' = [pc EXCEPT ![c] = "welcome"] /\ alive' = [alive EXCEPT ![c] = TRUE]
    BY <1>3 DEF Register, Goto
  <2>. QED BY <2>1 DEF AliveNamed
<1>4. ASSUME NEW c \in Conn, RemoveSession(c)
      PROVE  username'[d] # NoName /\ pc'[d] \notin {"new", "close", "closed"}
  <2>1. /\ pc[c] = "cleanup" /\ pc' = [pc EXCEPT ![c] = "close"] /\ username' = username
        /\ alive' = alive \/ \E s \in Conn : alive' = [alive EXCEPT ![s] = FALSE]
    <3>1. HasSession(c) => sessions[fd[c]] \in Conn
      BY <1>4, RemoveFacts
    <3>. QED BY <1>4, <3>1 DEF RemoveSession, Forget, Return, Goto
  <2>2. alive[d]
    BY <2>1
  <2>3. d # c
    <3>1. CASE HasSession(c)
      BY <1>4, <3>1, RemoveFacts
    <3>2. CASE ~HasSession(c)
      BY <2>1, <2>2, <3>2, ConstantsOK DEF AliveNamed, OwnSession, HasSession
    <3>. QED BY <3>1, <3>2
  <2>. QED BY <2>1, <2>2, <2>3 DEF AliveNamed
<1>5. ASSUME NEW c \in Conn, CloseSocket(c)
      PROVE  username'[d] # NoName /\ pc'[d] \notin {"new", "close", "closed"}
  BY <1>5 DEF CloseSocket, Goto, identity, AliveNamed
<1>. QED BY <1>1, <1>2, <1>3, <1>4, <1>5, NextQuiet

\* A session that has been removed never comes back.
LEMMA DeadStays ==
    ASSUME Base, OwnSession, [Next]_vars, NEW d \in Conn, username[d] \in Name, ~alive[d]
    PROVE  ~alive'[d]
<1>. USE DEF Base, Typed, TypeOK
<1>1. CASE Quiet
  BY <1>1 DEF Quiet
<1>2. ASSUME NEW c \in Conn,
             (\E f \in Fd, a \in Addr : Accept(c, f, a)) \/ CloseSocket(c)
      PROVE  ~alive'[d]
  BY <1>2 DEF Accept, CloseSocket, identity
<1>3. ASSUME NEW c \in Conn, NEW r \in Requests[c], Register(c, r)
      PROVE  ~alive'[d]
  <2>1. username[c] = NoName
    BY <1>3, RegisterUnnamed
  <2>2. d # c
    BY <2>1, ConstantsOK
  <2>3. alive' = [alive EXCEPT ![c] = TRUE]
    BY <1>3 DEF Register
  <2>. QED BY <2>2, <2>3
<1>4. ASSUME NEW c \in Conn, RemoveSession(c)
      PROVE  ~alive'[d]
  <2>1. CASE HasSession(c)
    <3>1. alive' = [alive EXCEPT ![c] = FALSE]
      BY <1>4, <2>1, RemoveFacts
    <3>. QED BY <3>1
  <2>2. CASE ~HasSession(c)
    BY <1>4, <2>2 DEF RemoveSession, Forget
  <2>. QED BY <2>1, <2>2
<1>. QED BY <1>1, <1>2, <1>3, <1>4, NextQuiet

\* What is settled stays settled.
LEMMA SettledStays ==
    ASSUME Base, OwnSession, Known, [Next]_vars, NEW b, NEW n, NEW u, Settled(b, n, u)
    PROVE  Settled(b, n, u)'
<1>1. PICK d \in Conn :
         username[d] = u /\ u \in Name /\ (~alive[d] \/ d \in broken \/ Written(b, n, d))
  BY DEF Settled
<1>2. username'[d] = u
  BY <1>1, IntroducedBy
<1>3. CASE ~alive[d]
  BY <1>1, <1>2, <1>3, DeadStays DEF Settled
<1>5. CASE d \in broken
  BY <1>1, <1>2, <1>5, BrokenStays DEF Settled
<1>4. CASE Written(b, n, d)
  <2>0. PICK x \in Conn : \E i \in DOMAIN wire[x] :
           /\ wire[x][i].msg = "FOR_DM" /\ wire[x][i].by = b
           /\ wire[x][i].n = n /\ wire[x][i].to = d
    BY <1>4 DEF Written
  <2>1. PICK i \in DOMAIN wire[x] :
           /\ wire[x][i].msg = "FOR_DM" /\ wire[x][i].by = b
           /\ wire[x][i].n = n /\ wire[x][i].to = d
    BY <2>0
  <2>2. i \in DOMAIN wire'[x] /\ wire'[x][i] = wire[x][i]
    BY NextOccasion, WiresGrow
  <2>3. Written(b, n, d)'
    BY <2>1, <2>2 DEF Written
  <2>. QED BY <1>1, <1>2, <2>3 DEF Settled
<1>. QED BY <1>1, <1>3, <1>4, <1>5

\* A message is delivered to its connection, unless that has been reset, or closed and
\* the session removed before.
LEMMA DeliverSettles ==
    ASSUME Base, OwnSession, AliveNamed, Known, NEW c \in Conn, NEW d \in Conn, Deliver(c, d)
    PROVE  Settled(c, reads[c], req[c].user)'
<1>. USE DEF Base, Typed, TypeOK
<1>1. /\ pc[c] = "deliver" /\ d \in targets[c]
      /\ UNCHANGED <<username, alive, broken, reads, req>>
      /\ Send(d, NewFrame(c, "FOR_DM", d, reads[c], req[c]))
  BY DEF Deliver, identity, net
<1>2. username[d] = req[c].user /\ username[d] \in Name
  BY <1>1 DEF Known, Introduced
<1>6. fd[d] \in Fd
  BY <1>2, ConstantsOK DEF OwnSession, RegistryInv, Placed
<1>3. CASE sock[fd[d]] # d
  <2>1. pc[d] \in {"new", "closed"}
    BY <1>3 DEF RegistryInv, Placed
  <2>2. ~alive'[d]
    BY <1>1, <2>1 DEF AliveNamed
  <2>. QED BY <1>1, <1>2, <2>2 DEF Settled
<1>4. CASE d \in broken
  BY <1>1, <1>2, <1>4 DEF Settled
<1>5. CASE sock[fd[d]] = d /\ d \notin broken
  <2>1. PICK f \in Frame : /\ f = NewFrame(c, "FOR_DM", d, reads[c], req[c])
                           /\ f.msg = "FOR_DM" /\ f.to = d /\ f.by = c /\ f.n = reads[c]
    <3>1. "FOR_DM" \in Messages
      BY DEF Messages
    <3>. QED BY <3>1, ThreadFrame
  <2>2. wire'[d] = Append(wire[d], f) /\ wire[d] \in Seq(Frame)
    BY <1>1, <1>5, <2>1, ConstantsOK DEF Send, SendFails
  <2>3. Len(wire[d]) + 1 \in DOMAIN wire'[d] /\ wire'[d][Len(wire[d]) + 1] = f
    BY <2>2
  <2>4. Written(c, reads[c], d)'
    BY <1>1, <2>1, <2>3 DEF Written
  <2>. QED BY <1>1, <1>2, <2>4 DEF Settled
<1>. QED BY <1>3, <1>4, <1>5

\* A thread that is about to say "DM sent" has said so to itself before, or has
\* just written the message or found its addressee removed.
LEMMA Confirmation ==
    ASSUME Base, Confirmed, [Next]_vars, NEW c \in Conn, reply'[c] = "OK_DM_SENT"
    PROVE  /\ pc'[c] = "reply"
           /\ \/ reply[c] = "OK_DM_SENT" /\ reads'[c] = reads[c] /\ req'[c] = req[c]
              \/ \E d \in Conn : Deliver(c, d) \/ (CheckAlive(c, d) /\ ~alive[d])
<1>. DEFINE Kept == /\ pc'[c] = pc[c] /\ reply'[c] = reply[c]
                    /\ reads'[c] = reads[c] /\ req'[c] = req[c]
<1>0. reply[c] = "OK_DM_SENT" => pc[c] = "reply"
  BY DEF Confirmed
<1>. USE DEF Base, Typed, TypeOK, locals
<1>1. CASE UNCHANGED vars
  BY <1>0, <1>1 DEF vars
<1>2. ASSUME NEW b \in Conn, NEW r \in Requests[b], Serve(b, r) PROVE b # c /\ Kept
  <2>1. Read(b, r) /\ \/ reply' = reply
                      \/ \E m \in Refusals \cup {"OK_QUIT"} : reply' = [reply EXCEPT ![b] = m]
    BY <1>2 DEF Serve, RefuseRegister, RejectRegister, Verdict, Register, RefuseStranger,
                RefuseMalformed, Begin, RefuseUnknown, HandleQuit, DropTooLong, Answer, Refusals
  <2>2. b # c
    BY <1>0, <2>1 DEF Read, Refusals
  <2>3. pc'[c] = pc[c]
    BY <1>2, <2>2 DEF Serve, RefuseRegister, RejectRegister, Register, RefuseStranger,
             RefuseMalformed, Begin, RefuseUnknown, HandleQuit, DropTooLong, Answer, Goto
  <2>. QED BY <2>1, <2>2, <2>3 DEF Read
<1>3. ASSUME NEW b \in Conn, ThreadStep(b), b # c PROVE Kept
  <2>1. reads' = reads
    BY <1>3 DEF ThreadStep, SendRefusal, Welcome, Restore, NotifyRestored, SetStatus, Remember,
                Touch, CollectTargets,
                ListUsers, LookupUser, SendNext, CheckAlive, Deliver, Reply, EndOfStream,
                RemoveSession, CloseSocket, Return
  <2>. QED BY <1>3, <2>1, ThreadEffect DEF Effect
<1>4. ASSUME ThreadStep(c)
      PROVE  pc'[c] = "reply" /\ \E d \in Conn : Deliver(c, d) \/ (CheckAlive(c, d) /\ ~alive[d])
  <2>1. CASE SendRefusal(c) \/ Welcome(c) \/ Reply(c) \/ RemoveSession(c)
    BY <2>1 DEF SendRefusal, Welcome, Reply, RemoveSession, Return
  <2>2. CASE Restore(c) \/ NotifyRestored(c) \/ SetStatus(c) \/ Remember(c) \/ Touch(c)
               \/ CollectTargets(c) \/ EndOfStream(c) \/ CloseSocket(c)
    BY <1>0, <2>2 DEF Restore, NotifyRestored, SetStatus, Remember, Touch, CollectTargets,
                      EndOfStream,
             CloseSocket
  <2>3. CASE ListUsers(c) \/ LookupUser(c)
    BY <1>0, <2>3 DEF ListUsers, LookupUser, Answer
  <2>4. ASSUME NEW d \in Conn, SendNext(c, d) PROVE FALSE
    <3>1. CASE Unsent(c, d) = {}
      BY <2>4, <3>1 DEF SendNext, Return
    <3>2. CASE Unsent(c, d) # {}
      BY <1>0, <2>4, <3>2 DEF SendNext
    <3>. QED BY <3>1, <3>2
  <2>5. ASSUME NEW d \in Conn, CheckAlive(c, d) PROVE pc'[c] = "reply" /\ ~alive[d]
    <3>1. CASE alive[d]
      BY <1>0, <2>5, <3>1 DEF CheckAlive, Deliverable
    <3>2. CASE ~alive[d]
      BY <2>5, <3>2 DEF CheckAlive, Deliverable, Answer, Goto
    <3>. QED BY <3>1, <3>2
  <2>6. ASSUME NEW d \in Conn, Deliver(c, d) PROVE pc'[c] = "reply"
    BY <2>6 DEF Deliver, Answer, Goto
  <2>. QED BY <1>4, <2>1, <2>2, <2>3, <2>4, <2>5, <2>6 DEF ThreadStep
<1>5. ASSUME WatchdogStep PROVE Kept
  BY <1>5 DEF WatchdogStep, WakeUp, EndScan, CheckIdle, Mark, Notify
<1>6. ASSUME NEW b \in Conn,
             (\E f \in Fd, a \in Addr : Accept(b, f, a)) \/ HangUp(b) \/ Reset(b) \/ Elapse(b)
      PROVE  Kept
  <2>1. ASSUME NEW f \in Fd, NEW a \in Addr, Accept(b, f, a) PROVE Kept
    BY <1>0, <2>1 DEF Accept, Goto
  <2>2. CASE HangUp(b) \/ Reset(b) \/ Elapse(b)
    BY <2>2 DEF HangUp, Reset, Elapse
  <2>. QED BY <1>6, <2>1, <2>2
<1>7. CASE Kept
  BY <1>0, <1>7
<1>. HIDE DEF Kept
<1>. QED BY <1>1, <1>2, <1>3, <1>4, <1>5, <1>6, <1>7 DEF Next

ConfirmInv == ServerInv /\ AliveNamed /\ Confirmed

\* A confirmation follows the message, or the end of its addressee or its connection.
LEMMA ConfirmedNext == ConfirmInv /\ [Next]_vars => Confirmed'
<1>. SUFFICES ASSUME ConfirmInv, [Next]_vars PROVE Confirmed'
  OBVIOUS
<1>0. Base /\ OwnSession /\ Known /\ AliveNamed /\ Confirmed
  BY DEF ConfirmInv, ServerInv
<1>1. ASSUME NEW c \in Conn, reply'[c] = "OK_DM_SENT"
      PROVE  pc'[c] = "reply" /\ Settled(c, reads[c], req[c].user)'
  <2>1. pc'[c] = "reply"
    BY <1>0, <1>1, Confirmation
  <2>2. CASE reply[c] = "OK_DM_SENT" /\ reads'[c] = reads[c] /\ req'[c] = req[c]
    <3>1. Settled(c, reads[c], req[c].user)
      BY <1>0, <2>2 DEF Confirmed
    <3>2. \A n, u : Settled(c, n, u) => Settled(c, n, u)'
      BY <1>0, SettledStays
    <3>3. PICK k, v : k = reads[c] /\ v = req[c].user
      OBVIOUS
    <3>4. Settled(c, k, v)'
      BY <3>1, <3>2, <3>3
    <3>5. k = reads'[c] /\ v = req'[c].user
      BY <2>2, <3>3
    <3>. QED BY <2>1, <3>4, <3>5 DEF Settled, Written
  <2>3. ASSUME NEW d \in Conn, Deliver(c, d) PROVE Settled(c, reads[c], req[c].user)'
    BY <1>0, <2>3, DeliverSettles
  <2>4. ASSUME NEW d \in Conn, CheckAlive(c, d), ~alive[d]
        PROVE  Settled(c, reads[c], req[c].user)'
    <3>1. /\ pc[c] = "check" /\ d \in targets[c] /\ UNCHANGED <<username, alive, reads, req>>
      BY <2>4 DEF CheckAlive, identity
    <3>2. username[d] = req[c].user /\ username[d] \in Name
      BY <1>0, <3>1 DEF Known, Introduced
    <3>. QED BY <2>4, <3>1, <3>2 DEF Settled
  <2>. QED BY <1>0, <1>1, <2>1, <2>2, <2>3, <2>4, Confirmation
<1>2. ASSUME NEW x \in Conn, NEW m \in Frame, NEW i \in DOMAIN wire'[x],
             wire'[x][i] = m, m.msg = "OK_DM_SENT"
      PROVE  Settled(m.by, m.n, m.re.user)'
  <2>1. SUFFICES Settled(m.by, m.n, m.re.user)
    BY <1>0, SettledStays
  <2>2. CASE i \in DOMAIN wire[x] /\ wire'[x][i] = wire[x][i]
    BY <1>0, <1>2, <2>2 DEF Confirmed
  <2>3. CASE wire' = wire
    BY <1>2, <2>2, <2>3
  <2>4. ASSUME NEW f \in Frame, Send(f.to, f) PROVE Settled(m.by, m.n, m.re.user) \/ m = f
    <3>1. wire[x] \in Seq(Frame)
      BY <1>0 DEF Base, Typed, TypeOK
    <3>. QED BY <1>0, <1>2, <2>2, <2>4, <3>1, WrittenLast
  <2>5. CASE Confirming(m)
    BY <1>0, <2>5 DEF Confirming, Confirmed
  <2>6. m.msg \notin Delivery
    BY <1>2 DEF Delivery
  <2>7. Spoken
    BY <1>0, NextSpoken
  <2>. QED BY <1>2, <2>3, <2>4, <2>5, <2>6, <2>7 DEF Spoken
<1>. QED BY <1>1, <1>2 DEF Confirmed

\* "DM sent" is only said of a message that was written for a session of the name it was
\* sent to, unless that session had been removed by then or its connection reset.
THEOREM DmAlwaysConfirmed == Spec => []DmConfirmed
<1>1. Init => ConfirmInv
  <2>1. Init => AliveNamed /\ Confirmed
    BY DEF Init, AliveNamed, Confirmed
  <2>. QED BY <2>1, ServerInit DEF ConfirmInv
<1>2. ConfirmInv /\ [Next]_vars => ConfirmInv'
  BY ServerNext, AliveNamedNext, ConfirmedNext DEF ConfirmInv, ServerInv
<1>3. ConfirmInv => DmConfirmed
  <2>1. SUFFICES ASSUME ConfirmInv, NEW x \in Conn, NEW i \in DOMAIN wire[x],
                        wire[x][i].msg = "OK_DM_SENT"
                 PROVE  \E d \in Conn :
                           /\ username[d] = wire[x][i].re.user
                           /\ \/ ~alive[d] \/ d \in broken
                              \/ \E e \in AllFrames : /\ e.msg = "FOR_DM" /\ e.by = wire[x][i].by
                                                      /\ e.n = wire[x][i].n /\ e.to = d
    BY DEF DmConfirmed, AllFrames, Frames
  <2>2. wire[x][i] \in Frame
    <3>1. Base
      BY <2>1 DEF ConfirmInv, ServerInv
    <3>2. wire[x] \in Seq(Frame)
      BY <3>1 DEF Base, Typed, TypeOK
    <3>. QED BY <2>1, <3>2
  <2>3. Settled(wire[x][i].by, wire[x][i].n, wire[x][i].re.user)
    BY <2>1, <2>2 DEF ConfirmInv, Confirmed
  <2>. QED BY <2>3 DEF Settled, Written, AllFrames, Frames
<1>. QED BY <1>1, <1>2, <1>3, PTL DEF Spec

-----------------------------------------------------------------------------
(* Answered *)

\* A frame of thread c to its client that the client takes for an answer.
Answering(m, c) == m.by = c /\ m.msg \notin {"STATUS_RESTORED", "FOR_DM"}

\* The current request of c has had its answer.
Done(c) ==
    \/ pc[c] \in {"new", "recv"}
    \/ pc[c] = "broadcast" /\ c \notin targets[c]
    \/ pc[c] = "cleanup" /\ ~LeftInSilence(c)

Leaving(c) == pc[c] \in {"close", "closed"}

\* A thread that waits for a request has none.
Idle == \A c \in Conn : pc[c] \in {"new", "recv"} => req[c] = NoRequest

\* A broadcast reaches the sender's connection once, as the sender's own copy.
OwnCopy ==
    \A c \in Conn : pc[c] = "broadcast" => \A d \in targets[c] \ {c} : sock[fd[d]] # c

Answered(c, k) == k < reads[c] \/ (k = reads[c] /\ Done(c))

\* One answer to the k-th request is on the wire, or none could be sent.
HadAnswer(c, k) ==
    (\E i : AnswersTo(c, k) = {i}) \/ (c \in broken /\ AnswersTo(c, k) = {})

\* Each request has had one answer, the current one perhaps none yet.
AnsweredOnce ==
    \A c \in Conn : ~Leaving(c) => \A k \in Nat \ {0} :
        IF Answered(c, k) THEN HadAnswer(c, k) ELSE AnswersTo(c, k) = {}

\* A step puts no answer of c on its wire, or one, unless c has been reset.
Mute(c) ==
    wire'[c] = wire[c] \/ \E m \in Frame : ~Answering(m, c) /\ wire'[c] = Append(wire[c], m)

Speaks(c) ==
    \/ \E m \in Frame : Answering(m, c) /\ m.n = reads'[c] /\ wire'[c] = Append(wire[c], m)
    \/ c \in broken' /\ wire'[c] = wire[c]

\* What a step does to the request of c and its answer.
Progress(c) ==
    \/ Leaving(c)'
    \/ Mute(c) /\ reads'[c] = reads[c] /\ (Done(c)' <=> Done(c))
    \/ Mute(c) /\ reads'[c] = reads[c] + 1 /\ Done(c) /\ ~Done(c)'
    \/ Speaks(c) /\ reads'[c] = reads[c] /\ ~Done(c) /\ Done(c)'

\* A step of progress keeps the count.
LEMMA ProgressCounts ==
    ASSUME Base, AnsweredOnce, NEW c \in Conn, Progress(c), ~Leaving(c)', ~Leaving(c),
           broken \subseteq broken', NEW k \in Nat \ {0}
    PROVE  IF Answered(c, k)' THEN HadAnswer(c, k)' ELSE AnswersTo(c, k)' = {}
<1>1. wire[c] \in Seq(Frame) /\ reads[c] \in Nat
  BY DEF Base, Typed, TypeOK
<1>2. IF Answered(c, k) THEN HadAnswer(c, k) ELSE AnswersTo(c, k) = {}
  BY DEF AnsweredOnce
<1>9. ASSUME AnswersTo(c, k)' = AnswersTo(c, k), HadAnswer(c, k) PROVE HadAnswer(c, k)'
  BY <1>9 DEF HadAnswer
<1>3. ASSUME NEW m \in Frame, wire'[c] = Append(wire[c], m)
      PROVE  AnswersTo(c, k)' = IF Answering(m, c) /\ m.n = k
                                THEN AnswersTo(c, k) \cup {Len(wire[c]) + 1}
                                ELSE AnswersTo(c, k)
  <2>1. /\ DOMAIN wire'[c] = DOMAIN wire[c] \cup {Len(wire[c]) + 1}
        /\ wire'[c][Len(wire[c]) + 1] = m
        /\ \A i \in DOMAIN wire[c] : wire'[c][i] = wire[c][i]
    BY <1>1, <1>3
  <2>2. AnswersTo(c, k)' = {i \in DOMAIN wire'[c] : Answering(wire'[c][i], c) /\ wire'[c][i].n = k}
    BY DEF AnswersTo, Answering
  <2>. QED BY <2>1, <2>2 DEF AnswersTo
<1>4. ASSUME Mute(c) PROVE AnswersTo(c, k)' = AnswersTo(c, k)
  <2>1. CASE wire'[c] = wire[c]
    BY <2>1 DEF AnswersTo, Answering
  <2>. QED BY <1>3, <1>4, <2>1 DEF Mute
<1>6. CASE Mute(c) /\ reads'[c] = reads[c] /\ (Done(c)' <=> Done(c))
  BY <1>2, <1>4, <1>6, <1>9 DEF Answered
<1>7. CASE Mute(c) /\ reads'[c] = reads[c] + 1 /\ Done(c) /\ ~Done(c)'
  <2>1. Answered(c, k)' <=> Answered(c, k)
    BY <1>1, <1>7 DEF Answered
  <2>. QED BY <1>2, <1>4, <1>7, <1>9, <2>1
<1>8. CASE Speaks(c) /\ reads'[c] = reads[c] /\ ~Done(c) /\ Done(c)'
  <2>1. ASSUME NEW m \in Frame, Answering(m, c), m.n = reads[c], wire'[c] = Append(wire[c], m)
        PROVE  IF Answered(c, k)' THEN HadAnswer(c, k)' ELSE AnswersTo(c, k)' = {}
    <3>1. CASE k = reads[c]
      <4>1. Answered(c, k)' /\ ~Answered(c, k)
        BY <1>1, <1>8, <3>1 DEF Answered
      <4>2. AnswersTo(c, k)' = {Len(wire[c]) + 1}
        BY <1>2, <1>3, <2>1, <3>1, <4>1
      <4>. QED BY <4>1, <4>2 DEF HadAnswer
    <3>2. CASE k # reads[c]
      <4>1. Answered(c, k)' <=> Answered(c, k)
        BY <1>1, <1>8, <3>2 DEF Answered
      <4>2. AnswersTo(c, k)' = AnswersTo(c, k)
        BY <1>3, <2>1, <3>2
      <4>. QED BY <1>2, <1>9, <4>1, <4>2
    <3>. QED BY <3>1, <3>2
  <2>2. CASE c \in broken' /\ wire'[c] = wire[c]
    <3>1. AnswersTo(c, k)' = AnswersTo(c, k)
      BY <2>2 DEF AnswersTo
    <3>2. Answered(c, k) => Answered(c, k)'
      BY <1>1, <1>8 DEF Answered
    <3>3. CASE Answered(c, k)
      BY <1>2, <1>9, <3>1, <3>2, <3>3
    <3>4. CASE ~Answered(c, k)
      BY <1>2, <2>2, <3>1, <3>4 DEF HadAnswer
    <3>. QED BY <3>3, <3>4
  <2>. QED BY <1>8, <2>1, <2>2 DEF Speaks
<1>. QED BY <1>6, <1>7, <1>8 DEF Progress

\* What the frames of a step are by.
WrittenBy(b) == wire' = wire \/ \E m \in Frame : m.by = b /\ Send(m.to, m)

\* Nobody else's frame is an answer of c.
LEMMA OthersMute ==
    ASSUME Base, NEW b, WrittenBy(b), NEW c \in Conn, b # c
    PROVE  Mute(c)
<1>1. wire \in [Conn -> Seq(Frame)]
  BY DEF Base, Typed, TypeOK
<1>2. ASSUME NEW m \in Frame, m.by = b, Send(m.to, m)
      PROVE  ~Answering(m, c) /\ (wire'[c] = wire[c] \/ wire'[c] = Append(wire[c], m))
  BY <1>2, SendReaches DEF Frame, Answering
<1>. QED BY <1>2 DEF WrittenBy, Mute

\* The later steps of a thread write its own frames,
LEMMA ThreadWrites ==
    ASSUME Base, NEW b \in Conn, ThreadStep(b)
    PROVE  WrittenBy(b)
<1>15. ASSUME NEW d \in Conn, NEW m \in Messages
       PROVE  \E f \in Frame : /\ f = NewFrame(b, m, d, reads[b], req[b]) /\ f.msg = m
                              /\ f.to = d /\ f.by = b /\ f.n = reads[b] /\ f.re = req[b]
  BY ThreadFrame
<1>. USE DEF Base, Typed, TypeOK
<1>1. ASSUME NEW d \in Conn, NEW m \in Messages, Send(d, NewFrame(b, m, d, reads[b], req[b]))
      PROVE  WrittenBy(b)
  <2>1. PICK f \in Frame : f = NewFrame(b, m, d, reads[b], req[b]) /\ f.to = d /\ f.by = b
    BY <1>15
  <2>. QED BY <1>1, <2>1 DEF WrittenBy
<1>2. CASE Welcome(b) \/ NotifyRestored(b)
  BY <1>1, <1>2 DEF Welcome, NotifyRestored, Messages
<1>3. CASE SendRefusal(b) \/ Reply(b)
  <2>1. reply[b] \in Messages
    BY DEF Messages
  <2>. QED BY <1>1, <1>3, <2>1 DEF SendRefusal, Reply
<1>4. ASSUME NEW d \in Conn, SendNext(b, d) PROVE WrittenBy(b)
  BY <1>1, <1>4 DEF SendNext, Messages
<1>5. ASSUME NEW d \in Conn, Deliver(b, d) PROVE WrittenBy(b)
  BY <1>1, <1>5 DEF Deliver, Messages
<1>6. CASE Restore(b) \/ SetStatus(b) \/ Remember(b) \/ Touch(b) \/ CollectTargets(b)
             \/ ListUsers(b) \/ LookupUser(b) \/ EndOfStream(b) \/ RemoveSession(b)
             \/ CloseSocket(b)
  BY <1>6 DEF WrittenBy, Restore, SetStatus, Remember, Touch, CollectTargets, ListUsers, LookupUser,
              EndOfStream, RemoveSession, CloseSocket
<1>7. ASSUME NEW d \in Conn, CheckAlive(b, d) PROVE WrittenBy(b)
  BY <1>7 DEF WrittenBy, CheckAlive
<1>. QED BY <1>2, <1>3, <1>4, <1>5, <1>6, <1>7 DEF ThreadStep

\* the watchdog its own,
LEMMA WatchdogWrites == WatchdogStep => WrittenBy(Watchdog)
<1>1. ASSUME NEW d \in Conn, Notify(d) PROVE WrittenBy(Watchdog)
  <2>1. "AUTO_INACTIVE" \in Messages
    BY DEF Messages
  <2>2. PICK f \in Frame : /\ f = NewFrame(Watchdog, "AUTO_INACTIVE", d, 0, NoRequest)
                           /\ f.to = d /\ f.by = Watchdog
    BY <2>1, NewFrameParts, NoRequestType
  <2>. QED BY <1>1, <2>2 DEF Notify, WrittenBy
<1>. QED BY <1>1 DEF WatchdogStep, WakeUp, EndScan, CheckIdle, Mark, WrittenBy

\* and to read a request writes nothing.
LEMMA ServeWrites ==
    ASSUME NEW b \in Conn, NEW r \in Requests[b], Serve(b, r)
    PROVE  wire' = wire
  BY DEF Serve, RefuseRegister, RejectRegister, Register, RefuseStranger, RefuseMalformed,
         Begin, RefuseUnknown, HandleQuit, DropTooLong

\* A thread that runs its handler, and its own connection.
LEMMA OwnWire ==
    ASSUME Base, NEW c \in Conn, pc[c] \notin {"new", "closed"}, NEW m \in Frame, Send(c, m)
    PROVE  wire'[c] = IF c \in broken THEN wire[c] ELSE Append(wire[c], m)
<1>1. sock[fd[c]] = c /\ c # NoConn
  BY ConstantsOK DEF Base, RegistryInv, Placed
<1>2. wire \in [Conn -> Seq(Frame)]
  BY DEF Base, Typed, TypeOK
<1>. QED BY <1>1, <1>2 DEF Send, SendFails

\* A thread reads a request, and has yet to answer it, or never will.
LEMMA ServeProgress ==
    ASSUME Base, NEW c \in Conn, NEW r \in Requests[c], Serve(c, r)
    PROVE  Progress(c)
<1>. USE DEF Base, Typed, TypeOK
<1>1. pc[c] = "recv" /\ reads'[c] = reads[c] + 1 /\ Done(c)
  BY DEF Serve, RefuseRegister, RejectRegister, Register, RefuseStranger, RefuseMalformed,
         Begin, RefuseUnknown, HandleQuit, DropTooLong, Read, Done
<1>2. Mute(c)
  BY ServeWrites DEF Mute
<1>3. CASE HandleQuit(c, r)
  <2>1. CASE HasSession(c) /\ r.parses
    <3>1. pc'[c] = "reply"
      BY <1>3, <2>1 DEF HandleQuit, Answer, Goto
    <3>. QED BY <1>1, <1>2, <3>1 DEF Progress, Done
  <2>2. CASE ~(HasSession(c) /\ r.parses)
    <3>1. pc'[c] = "cleanup" /\ req'[c] = r /\ UNCHANGED <<sessions, fd>> /\ r.type = "QUIT"
      BY <1>3, <2>2 DEF HandleQuit, Read, Goto, registry, net
    <3>2. LeftInSilence(c)'
      BY <2>2, <3>1 DEF LeftInSilence, HasSession
    <3>. QED BY <1>1, <1>2, <3>1, <3>2 DEF Progress, Done
  <2>. QED BY <2>1, <2>2
<1>4. CASE DropTooLong(c, r)
  <2>1. LeftInSilence(c)' /\ pc'[c] = "cleanup"
    BY <1>4 DEF DropTooLong, Read, Goto, AfterStream, LeftInSilence
  <2>. QED BY <1>1, <1>2, <2>1 DEF Progress, Done
<1>5. CASE ~HandleQuit(c, r) /\ ~DropTooLong(c, r)
  <2>1. pc'[c] \in {"reply", "refuse", "welcome", "restore", "setstatus", "touch"}
    BY <1>5 DEF Serve, RefuseRegister, RejectRegister, Register, RefuseStranger, RefuseMalformed,
           Begin, FirstStep, RefuseUnknown, Answer, Goto
  <2>. QED BY <1>1, <1>2, <2>1 DEF Progress, Done
<1>. QED BY <1>3, <1>4, <1>5

\* A thread that has begun with a request answers it once.
LEMMA ThreadProgress ==
    ASSUME Base, OwnSession, Known, Idle, OwnCopy, NEW c \in Conn, ThreadStep(c)
    PROVE  Progress(c)
<1>15. ASSUME NEW d \in Conn, NEW m \in Messages
       PROVE  \E f \in Frame : /\ f = NewFrame(c, m, d, reads[c], req[c]) /\ f.msg = m
                              /\ f.to = d /\ f.by = c /\ f.n = reads[c] /\ f.re = req[c]
  BY ThreadFrame
<1>16. ASSUME NEW m \in Frame, NEW d \in Conn, Send(d, m)
       PROVE  wire'[c] = wire[c] \/ (wire'[c] = Append(wire[c], m) /\ sock[fd[d]] = c)
  BY <1>16, SendReaches
<1>. USE DEF Base, Typed, TypeOK
<1>1. ASSUME NEW m \in Messages, m \notin {"STATUS_RESTORED", "FOR_DM"}, pc[c] \notin {"new", "closed"},
             Send(c, NewFrame(c, m, c, reads[c], req[c])), reads' = reads, broken' = broken
      PROVE  Speaks(c)
  <2>1. PICK f \in Frame : /\ f = NewFrame(c, m, c, reads[c], req[c]) /\ f.msg = m
                           /\ f.by = c /\ f.n = reads[c]
    BY <1>15
  <2>2. wire'[c] = IF c \in broken THEN wire[c] ELSE Append(wire[c], f)
    BY <1>1, <2>1, OwnWire
  <2>. QED BY <1>1, <2>1, <2>2 DEF Speaks, Answering
<1>2. ASSUME NEW d \in Conn, NEW m \in {"STATUS_RESTORED", "FOR_DM"},
             Send(d, NewFrame(c, m, d, reads[c], req[c]))
      PROVE  Mute(c)
  <2>1. m \in Messages
    BY <1>2 DEF Messages
  <2>2. PICK f \in Frame : f = NewFrame(c, m, d, reads[c], req[c]) /\ f.msg = m
    BY <2>1, <1>15
  <2>3. wire'[c] = wire[c] \/ wire'[c] = Append(wire[c], f)
    BY <1>2, <2>2, <1>16
  <2>. QED BY <1>2, <2>2, <2>3 DEF Mute, Answering
<1>3. ASSUME wire' = wire PROVE Mute(c)
  BY <1>3 DEF Mute
<1>4. CASE Welcome(c)
  <2>1. "OK_REGISTER" \in Messages
    BY DEF Messages
  <2>2. /\ reads' = reads /\ broken' = broken
        /\ Send(c, NewFrame(c, "OK_REGISTER", c, reads[c], req[c]))
    BY <1>4 DEF Welcome, Return, net
  <2>3. Speaks(c)
    BY <1>1, <1>4, <2>1, <2>2 DEF Welcome
  <2>. QED BY <1>4, <2>3 DEF Welcome, Return, Goto, Progress, Done
<1>5. CASE SendRefusal(c) \/ Reply(c)
  <2>1. reply[c] \in Messages /\ reply[c] \notin {"STATUS_RESTORED", "FOR_DM"}
    BY DEF Messages, Answers
  <2>2. Speaks(c)
    BY <1>1, <1>5, <2>1 DEF SendRefusal, Reply, Return, net
  <2>3. req'[c] = NoRequest /\ pc'[c] \in {"recv", "cleanup"}
    BY <1>5 DEF SendRefusal, Reply, Return, Goto, AfterReply
  <2>4. Done(c)'
    BY <2>3 DEF Done, LeftInSilence, NoRequest
  <2>. QED BY <1>5, <2>2, <2>4 DEF SendRefusal, Reply, Return, Progress, Done
<1>6. CASE NotifyRestored(c)
  <2>1. Mute(c)
    BY <1>2, <1>6 DEF NotifyRestored
  <2>. QED BY <1>6, <2>1 DEF NotifyRestored, Goto, Progress, Done, locals
<1>7. CASE Restore(c) \/ SetStatus(c) \/ Remember(c) \/ Touch(c)
  BY <1>3, <1>7 DEF Restore, SetStatus, Remember, Touch, AfterTouch, Goto, Progress, Done, locals
<1>8. CASE CollectTargets(c)
  <2>1. Introduced(c)
    BY <1>8 DEF CollectTargets, Known, Handling
  <2>2. fd[c] \in Fd /\ sessions[fd[c]] = c
    BY <1>8, <2>1, ConstantsOK DEF CollectTargets, Introduced, OwnSession, RegistryInv, Placed
  <2>3. alive[c] /\ c \in Present
    BY <2>2, ConstantsOK DEF RegistryInv, RegistryConsistent, Present
  <2>4. targets'[c] = Targets(c)
    BY <1>8 DEF CollectTargets
  <2>5. c \in targets'[c]
    BY <2>3, <2>4 DEF Targets
  <2>. QED BY <1>3, <1>8, <2>5 DEF CollectTargets, Goto, Progress, Done
<1>9. CASE ListUsers(c) \/ LookupUser(c)
  BY <1>3, <1>9 DEF ListUsers, LookupUser, Answer, Goto, Progress, Done
<1>10. ASSUME NEW d \in Conn, CheckAlive(c, d) PROVE Progress(c)
  <2>1. /\ pc[c] = "check" /\ pc'[c] \in {"deliver", "reply"} /\ UNCHANGED <<wire, reads>>
    BY <1>10 DEF CheckAlive, Answer, Goto
  <2>. QED BY <1>3, <2>1 DEF Progress, Done
<1>11. ASSUME NEW d \in Conn, Deliver(c, d) PROVE Progress(c)
  <2>1. Mute(c)
    BY <1>2, <1>11 DEF Deliver
  <2>. QED BY <1>11, <2>1 DEF Deliver, Answer, Goto, Progress, Done
<1>12. ASSUME NEW d \in Conn, SendNext(c, d) PROVE Progress(c)
  <2>1. /\ pc[c] = "broadcast" /\ d \in targets[c] /\ reads' = reads /\ broken' = broken
        /\ Send(d, NewFrame(c, "BROADCAST_DELIVERY", d, reads[c], req[c]))
    BY <1>12 DEF SendNext, Return, net
  <2>2. /\ pc'[c] = IF Unsent(c, d) = {} THEN "recv" ELSE "broadcast"
        /\ Unsent(c, d) # {} => targets'[c] = Unsent(c, d)
    <3>1. CASE Unsent(c, d) = {}
      BY <1>12, <3>1 DEF SendNext, Return, Goto
    <3>2. CASE Unsent(c, d) # {}
      BY <1>12, <2>1, <3>2 DEF SendNext
    <3>. QED BY <3>1, <3>2
  <2>3. Done(c)' <=> c \notin Unsent(c, d)
    BY <2>2 DEF Done
  <2>4. CASE d = c
    <3>1. "BROADCAST_DELIVERY" \in Messages
      BY DEF Messages
    <3>2. Speaks(c)
      BY <1>1, <2>1, <2>4, <3>1
    <3>. QED BY <2>1, <2>3, <2>4, <3>2 DEF Unsent, Done, Progress
  <2>5. CASE d # c
    <3>1. sock[fd[d]] # c
      BY <2>1, <2>5 DEF OwnCopy
    <3>2. wire'[c] = wire[c]
      <4>1. PICK f \in Frame : f = NewFrame(c, "BROADCAST_DELIVERY", d, reads[c], req[c])
        <5>1. "BROADCAST_DELIVERY" \in Messages
          BY DEF Messages
        <5>. QED BY <5>1, <1>15
      <4>. QED BY <2>1, <3>1, <4>1, <1>16
    <3>3. Done(c)' <=> Done(c)
      BY <2>1, <2>3, <2>5 DEF Unsent, Done
    <3>. QED BY <2>1, <3>2, <3>3 DEF Progress, Mute
  <2>. QED BY <2>4, <2>5
<1>14. CASE EndOfStream(c)
  <2>1. pc[c] = "recv" /\ pc'[c] = "cleanup" /\ UNCHANGED <<wire, reads, req>>
    BY <1>14 DEF EndOfStream, AfterStream, Goto, locals
  <2>2. req'[c] = NoRequest
    BY <2>1 DEF Idle
  <2>3. Done(c) /\ Done(c)'
    BY <2>1, <2>2 DEF Done, LeftInSilence, NoRequest
  <2>. QED BY <1>3, <2>1, <2>3 DEF Progress
<1>13. CASE RemoveSession(c) \/ CloseSocket(c)
  BY <1>13 DEF RemoveSession, CloseSocket, Return, Goto, Progress, Leaving
<1>. QED BY <1>4, <1>5, <1>6, <1>7, <1>8, <1>9, <1>10, <1>11, <1>12, <1>13, <1>14
         DEF ThreadStep

\* A thread that waits to leave the registry keeps its session meanwhile.
LEMMA SessionKept ==
    ASSUME Base, [Next]_vars, NEW c \in Conn, pc[c] = "cleanup", pc'[c] = "cleanup"
    PROVE  HasSession(c)' <=> HasSession(c)
<1>. USE DEF Base, Typed, TypeOK, HasSession
<1>0. fd[c] \in Fd /\ \A b \in Conn \ {c} : pc[b] \notin {"new", "closed"} => fd[b] # fd[c]
  BY DEF RegistryInv, Placed
<1>1. CASE Quiet
  BY <1>1 DEF Quiet
<1>2. ASSUME NEW b \in Conn, (\E f \in Fd, a \in Addr : Accept(b, f, a)) \/ CloseSocket(b)
      PROVE  HasSession(c)' <=> HasSession(c)
  BY <1>2 DEF Accept, CloseSocket, Goto, registry
<1>3. ASSUME NEW b \in Conn, NEW r \in Requests[b], Register(b, r)
      PROVE  HasSession(c)' <=> HasSession(c)
  BY <1>0, <1>3 DEF Register, Read, net
<1>4. ASSUME NEW b \in Conn, RemoveSession(b) PROVE HasSession(c)' <=> HasSession(c)
  <2>1. b # c /\ pc[b] = "cleanup" /\ fd' = fd
    BY <1>4 DEF RemoveSession, Return, Goto, net
  <2>2. sessions' = sessions \/ sessions' = [sessions EXCEPT ![fd[b]] = NoConn]
    BY <1>4 DEF RemoveSession, Forget, ForgetSession, registry
  <2>. QED BY <1>0, <2>1, <2>2
<1>. QED BY <1>1, <1>2, <1>3, <1>4, NextQuiet

\* Everybody's step moves c's request on, and nobody else's answers it.
LEMMA NextProgress ==
    ASSUME Base, OwnSession, Known, Idle, OwnCopy, [Next]_vars, NEW c \in Conn
    PROVE  Progress(c)
<1>1. ASSUME Mute(c), reads'[c] = reads[c], pc'[c] = pc[c], targets'[c] = targets[c],
             req'[c] = req[c]
      PROVE  Progress(c)
  BY <1>1, SessionKept DEF Progress, Done, LeftInSilence
<1>. USE DEF Base, Typed, TypeOK, locals
<1>2. CASE UNCHANGED vars
  BY <1>1, <1>2 DEF vars, Mute
<1>3. ASSUME NEW b \in Conn, NEW r \in Requests[b], Serve(b, r), b # c PROVE Progress(c)
  <2>2. Mute(c)
    BY <1>3, ServeWrites DEF Mute
  <2>3. pc'[c] = pc[c] /\ targets'[c] = targets[c] /\ reads'[c] = reads[c] /\ req'[c] = req[c]
    BY <1>3 DEF Serve, RefuseRegister, RejectRegister, Register, RefuseStranger, RefuseMalformed,
             Begin, RefuseUnknown, HandleQuit, DropTooLong, Read, Answer, Goto
  <2>. QED BY <1>1, <2>2, <2>3
<1>4. ASSUME NEW b \in Conn, ThreadStep(b), b # c PROVE Progress(c)
  <2>1. WrittenBy(b)
    BY <1>4, ThreadWrites
  <2>2. Mute(c)
    BY <1>4, <2>1, OthersMute
  <2>3. reads' = reads
    BY <1>4 DEF ThreadStep, SendRefusal, Welcome, Restore, NotifyRestored, SetStatus, Remember,
                Touch, CollectTargets,
                ListUsers, LookupUser, SendNext, CheckAlive, Deliver, Reply, EndOfStream,
                RemoveSession, CloseSocket, Return
  <2>4. pc'[c] = pc[c] /\ targets'[c] = targets[c] /\ req'[c] = req[c]
    BY <1>4, ThreadEffect DEF Effect
  <2>. QED BY <1>1, <2>2, <2>3, <2>4
<1>5. ASSUME WatchdogStep PROVE Progress(c)
  <2>1. WrittenBy(Watchdog)
    BY <1>5, WatchdogWrites
  <2>2. Mute(c)
    BY <2>1, OthersMute, ConstantsOK
  <2>3. UNCHANGED <<pc, reads, targets, req>>
    BY <1>5 DEF WatchdogStep, WakeUp, EndScan, CheckIdle, Mark, Notify
  <2>. QED BY <1>1, <2>2, <2>3
<1>6. ASSUME NEW b \in Conn,
             (\E f \in Fd, a \in Addr : Accept(b, f, a)) \/ HangUp(b) \/ Reset(b) \/ Elapse(b)
      PROVE  Progress(c)
  <2>1. Mute(c) /\ reads' = reads /\ targets' = targets /\ req' = req
    BY <1>6 DEF Accept, HangUp, Reset, Elapse, Mute
  <2>2. pc'[c] = pc[c] \/ (pc[c] = "new" /\ pc'[c] = "recv")
    BY <1>6 DEF Accept, HangUp, Reset, Elapse, Goto
  <2>3. CASE pc[c] = "new" /\ pc'[c] = "recv"
    BY <2>1, <2>3 DEF Progress, Done
  <2>. QED BY <1>1, <2>1, <2>2, <2>3
<1>. QED BY <1>2, <1>3, <1>4, <1>5, <1>6, ServeProgress, ThreadProgress DEF Next

\* A thread broadcasts to those that it has found in the registry.
LEMMA BroadcastTargets ==
    ASSUME Base, [Next]_vars, NEW c \in Conn, pc'[c] = "broadcast"
    PROVE  \/ pc[c] = "broadcast" /\ targets'[c] \subseteq targets[c]
           \/ CollectTargets(c)
<1>. USE DEF Base, Typed, TypeOK, locals
<1>1. CASE UNCHANGED vars
  BY <1>1 DEF vars
<1>2. ASSUME NEW b \in Conn, NEW r \in Requests[b], Serve(b, r)
      PROVE  pc[c] = "broadcast" /\ targets'[c] = targets[c]
  BY <1>2 DEF Serve, RefuseRegister, RejectRegister, Register, RefuseStranger, RefuseMalformed,
           Begin, FirstStep, RefuseUnknown, HandleQuit, DropTooLong, AfterStream, Read, Answer, Goto
<1>3. ASSUME NEW b \in Conn, ThreadStep(b), b # c
      PROVE  pc[c] = "broadcast" /\ targets'[c] = targets[c]
  BY <1>3, ThreadEffect DEF Effect
<1>4. ASSUME ThreadStep(c), ~CollectTargets(c)
      PROVE  pc[c] = "broadcast" /\ targets'[c] \subseteq targets[c]
  <2>1. ASSUME NEW d \in Conn, SendNext(c, d) PROVE targets'[c] \subseteq targets[c]
    BY <2>1 DEF SendNext, Return, Unsent
  <2>2. \E d \in Conn : SendNext(c, d)
    BY <1>4 DEF ThreadStep, SendRefusal, Welcome, Restore, NotifyRestored, SetStatus, Remember,
                Touch, AfterTouch,
                ListUsers, LookupUser, CheckAlive, Deliver, Reply, AfterReply, EndOfStream,
                AfterStream, RemoveSession, CloseSocket, Return, Answer, Goto
  <2>. QED BY <2>1, <2>2 DEF SendNext
<1>5. ASSUME WatchdogStep PROVE pc' = pc /\ targets' = targets
  BY <1>5 DEF WatchdogStep, WakeUp, EndScan, CheckIdle, Mark, Notify
<1>6. ASSUME NEW b \in Conn,
             (\E f \in Fd, a \in Addr : Accept(b, f, a)) \/ HangUp(b) \/ Reset(b) \/ Elapse(b)
      PROVE  pc[c] = "broadcast" /\ targets' = targets
  BY <1>6 DEF Accept, HangUp, Reset, Elapse, Goto
<1>. QED BY <1>1, <1>2, <1>3, <1>4, <1>5, <1>6 DEF Next

\* A descriptor comes to denote a connection when it is accepted only.
LEMMA SockStays ==
    ASSUME Base, [Next]_vars, NEW c \in Conn, NEW d \in Conn,
           pc[c] # "new", pc[d] # "new", sock[fd[d]] # c
    PROVE  sock'[fd'[d]] # c
<1>. USE DEF Base, Typed, TypeOK, net
<1>0. fd[d] \in Fd
  BY DEF RegistryInv, Placed
<1>1. CASE Quiet
  BY <1>1 DEF Quiet
<1>2. ASSUME NEW b \in Conn, NEW f \in Fd, NEW a \in Addr, Accept(b, f, a)
      PROVE  sock'[fd'[d]] # c
  <2>1. b # c /\ b # d /\ sock' = [sock EXCEPT ![f] = b] /\ fd' = [fd EXCEPT ![b] = f]
    BY <1>2 DEF Accept
  <2>. QED BY <1>0, <2>1
<1>3. ASSUME NEW b \in Conn, CloseSocket(b)
      PROVE  sock'[fd'[d]] # c
  <2>1. sock' = [sock EXCEPT ![fd[b]] = NoConn] /\ fd' = fd
    BY <1>3 DEF CloseSocket
  <2>. QED BY <1>0, <2>1, ConstantsOK
<1>4. ASSUME NEW b \in Conn, (\E r \in Requests[b] : Register(b, r)) \/ RemoveSession(b)
      PROVE  sock'[fd'[d]] # c
  BY <1>4 DEF Register, RemoveSession
<1>. QED BY <1>1, <1>2, <1>3, <1>4, NextQuiet

\* The targets of a broadcast were in the registry together with its sender, so
\* that none has the sender's connection.
LEMMA OwnCopyNext == Base /\ OwnSession /\ Known /\ OwnCopy /\ [Next]_vars => OwnCopy'
<1>. SUFFICES ASSUME Base, OwnSession, Known, OwnCopy, [Next]_vars,
                     NEW c \in Conn, pc'[c] = "broadcast", NEW d \in targets'[c] \ {c}
              PROVE  sock'[fd'[d]] # c
  BY DEF OwnCopy
<1>1. targets \in [Conn -> SUBSET Conn]
  BY DEF Base, Typed, TypeOK
<1>2. CASE pc[c] = "broadcast" /\ targets'[c] \subseteq targets[c]
  <2>1. d \in targets[c] /\ d \in Conn /\ sock[fd[d]] # c
    BY <1>1, <1>2 DEF OwnCopy
  <2>2. pc[d] # "new"
    BY <2>1, ConstantsOK DEF Known, Introduced, OwnSession
  <2>. QED BY <1>2, <2>1, <2>2, SockStays
<1>3. CASE CollectTargets(c)
  <2>1. d \in Present /\ sock' = sock /\ fd' = fd
    BY <1>1, <1>3 DEF CollectTargets, Targets, net
  <2>2. PICK f \in Fd : sessions[f] = d /\ d # NoConn
    BY <2>1 DEF Present
  <2>3. fd[d] = f /\ sock[f] = d
    BY <2>1, <2>2 DEF Base, Typed, TypeOK, RegistryInv, Placed, SessionsPlaced, RegistryConsistent,
                      Present
  <2>. QED BY <2>1, <2>3
<1>. QED BY <1>2, <1>3, BroadcastTargets

\* A thread goes back to its loop with its request forgotten.
LEMMA IdleNext == Base /\ Idle /\ [Next]_vars => Idle'
<1>. SUFFICES ASSUME Base, Idle, [Next]_vars, NEW c \in Conn, pc'[c] \in {"new", "recv"}
              PROVE  req'[c] = NoRequest
  BY DEF Idle
<1>. USE DEF Base, Typed, TypeOK, locals
<1>1. ASSUME pc[c] \in {"new", "recv"}, req'[c] = req[c] PROVE req'[c] = NoRequest
  BY <1>1 DEF Idle
<1>2. CASE UNCHANGED vars
  BY <1>1, <1>2 DEF vars
<1>3. ASSUME NEW b \in Conn, NEW r \in Requests[b], Serve(b, r)
      PROVE  pc[c] \in {"new", "recv"} /\ req'[c] = req[c]
  BY <1>3 DEF Serve, RefuseRegister, RejectRegister, Register, RefuseStranger, RefuseMalformed,
           Begin, FirstStep, SessionTypes, RefuseUnknown, HandleQuit, DropTooLong, AfterStream,
           Read, Answer, Goto
<1>4. ASSUME NEW b \in Conn, ThreadStep(b), b # c
      PROVE  pc[c] \in {"new", "recv"} /\ req'[c] = req[c]
  BY <1>4, ThreadEffect DEF Effect
<1>5. ASSUME ThreadStep(c) PROVE req'[c] = NoRequest
  <2>1. CASE SendRefusal(c) \/ Welcome(c) \/ Reply(c) \/ RemoveSession(c)
    BY <2>1 DEF SendRefusal, Welcome, Reply, RemoveSession, Return
  <2>2. ASSUME NEW d \in Conn, SendNext(c, d) PROVE req'[c] = NoRequest
    <3>1. CASE Unsent(c, d) = {}
      BY <2>2, <3>1 DEF SendNext, Return
    <3>2. CASE Unsent(c, d) # {}
      BY <2>2, <3>2 DEF SendNext
    <3>. QED BY <3>1, <3>2
  <2>3. CASE \/ Restore(c) \/ SetStatus(c) \/ Remember(c) \/ NotifyRestored(c) \/ Touch(c)
             \/ CollectTargets(c) \/ ListUsers(c) \/ LookupUser(c) \/ EndOfStream(c)
             \/ CloseSocket(c)
    BY <2>3 DEF Restore, SetStatus, Remember, NotifyRestored, Touch, AfterTouch, CollectTargets,
                ListUsers, LookupUser, EndOfStream, AfterStream, CloseSocket, Answer, Goto
  <2>4. ASSUME NEW d \in Conn, CheckAlive(c, d) \/ Deliver(c, d) PROVE FALSE
    BY <2>4 DEF CheckAlive, Deliver, Answer, Goto
  <2>. QED BY <1>5, <2>1, <2>2, <2>3, <2>4 DEF ThreadStep
<1>6. ASSUME WatchdogStep PROVE pc' = pc /\ req' = req
  BY <1>6 DEF WatchdogStep, WakeUp, EndScan, CheckIdle, Mark, Notify
<1>7. ASSUME NEW b \in Conn,
             (\E f \in Fd, a \in Addr : Accept(b, f, a)) \/ HangUp(b) \/ Reset(b) \/ Elapse(b)
      PROVE  pc[c] \in {"new", "recv"} /\ req' = req
  BY <1>7 DEF Accept, HangUp, Reset, Elapse, Goto
<1>. QED BY <1>1, <1>2, <1>3, <1>4, <1>5, <1>6, <1>7 DEF Next

AnswerInv == ServerInv /\ Idle /\ OwnCopy /\ AnsweredOnce

\* A thread that has left the registry does not come back.
LEMMA LeavingStays ==
    ASSUME Base, [Next]_vars, NEW c \in Conn, Leaving(c)
    PROVE  Leaving(c)'
<1>. USE DEF Base, Typed, TypeOK, Leaving
<1>1. CASE UNCHANGED vars
  BY <1>1 DEF vars
<1>2. ASSUME NEW b \in Conn, NEW r \in Requests[b], Serve(b, r) PROVE pc'[c] = pc[c]
  BY <1>2 DEF Serve, RefuseRegister, RejectRegister, Register, RefuseStranger, RefuseMalformed,
           Begin, RefuseUnknown, HandleQuit, DropTooLong, Read, Answer, Goto
<1>3. ASSUME NEW b \in Conn, ThreadStep(b), b # c PROVE pc'[c] = pc[c]
  BY <1>3, ThreadEffect DEF Effect
<1>4. ASSUME ThreadStep(c) PROVE Leaving(c)'
  <2>1. RemoveSession(c) \/ CloseSocket(c)
    BY <1>4 DEF ThreadStep, SendRefusal, Welcome, Restore, NotifyRestored, SetStatus, Remember,
                Touch, CollectTargets,
                ListUsers, LookupUser, SendNext, CheckAlive, Deliver, Reply, EndOfStream
  <2>. QED BY <2>1 DEF RemoveSession, CloseSocket, Return, Goto
<1>5. ASSUME WatchdogStep PROVE pc' = pc
  BY <1>5 DEF WatchdogStep, WakeUp, EndScan, CheckIdle, Mark, Notify
<1>6. ASSUME NEW b \in Conn,
             (\E f \in Fd, a \in Addr : Accept(b, f, a)) \/ HangUp(b) \/ Reset(b) \/ Elapse(b)
      PROVE  pc'[c] = pc[c]
  BY <1>6 DEF Accept, HangUp, Reset, Elapse, Goto
<1>. QED BY <1>1, <1>2, <1>3, <1>4, <1>5, <1>6 DEF Next

\* The count of the answers grows with the count of the requests.
LEMMA AnsweredNext == AnswerInv /\ [Next]_vars => AnsweredOnce'
<1>. SUFFICES ASSUME AnswerInv, [Next]_vars, NEW c \in Conn, ~Leaving(c)', NEW k \in Nat \ {0}
              PROVE  IF Answered(c, k)' THEN HadAnswer(c, k)' ELSE AnswersTo(c, k)' = {}
  BY DEF AnsweredOnce
<1>1. Base /\ OwnSession /\ Known /\ Idle /\ OwnCopy /\ AnsweredOnce
  BY DEF AnswerInv, ServerInv
<1>2. Progress(c)
  BY <1>1, NextProgress
<1>3. ~Leaving(c)
  BY <1>1, LeavingStays
<1>. QED BY <1>1, <1>2, <1>3, BrokenStays, ProgressCounts

\* When a thread is ready for the next request, or has left its loop, each request it has
\* read has been answered by exactly one frame, but for a last one that ends the loop in
\* silence (a frame that is too long, a QUIT that does not parse or of a stranger), and a
\* client that has reset the connection has been sent one answer at most.
THEOREM AlwaysOneAnswer == Spec => []OneAnswer
<1>1. Init => AnswerInv
  <2>1. Init => Idle /\ OwnCopy /\ AnsweredOnce
    <3>1. Init => Idle /\ OwnCopy
      BY DEF Init, Idle, OwnCopy
    <3>2. ASSUME Init, NEW c \in Conn, NEW k \in Nat \ {0}
          PROVE  ~Answered(c, k) /\ AnswersTo(c, k) = {}
      BY <3>2 DEF Init, Answered, AnswersTo
    <3>. QED BY <3>1, <3>2 DEF AnsweredOnce
  <2>. QED BY <2>1, ServerInit DEF AnswerInv
<1>2. AnswerInv /\ [Next]_vars => AnswerInv'
  BY ServerNext, IdleNext, OwnCopyNext, AnsweredNext DEF AnswerInv, ServerInv
<1>3. AnswerInv => OneAnswer
  <2>1. SUFFICES ASSUME AnswerInv, NEW c \in Conn, pc[c] \in {"recv", "cleanup"},
                        NEW k \in 1..reads[c]
                 PROVE  LET n == Cardinality(AnswersTo(c, k)) IN
                        IF LeftInSilence(c) /\ k = reads[c] THEN n = 0
                        ELSE IF c \in broken                THEN n <= 1
                        ELSE n = 1
    BY DEF OneAnswer
  <2>2. reads[c] \in Nat /\ k \in Nat \ {0} /\ k <= reads[c]
    BY <2>1 DEF AnswerInv, ServerInv, Base, Typed, TypeOK
  <2>3. IF Answered(c, k) THEN HadAnswer(c, k) ELSE AnswersTo(c, k) = {}
    BY <2>1, <2>2 DEF AnswerInv, AnsweredOnce, Leaving
  <2>4. \A i : Cardinality({i}) = 1
    BY FS_Singleton
  <2>5. Cardinality({}) = 0
    BY FS_EmptySet
  <2>6. CASE LeftInSilence(c) /\ k = reads[c]
    <3>1. ~Answered(c, k)
      BY <2>2, <2>6 DEF Answered, Done, LeftInSilence
    <3>. QED BY <2>3, <2>5, <2>6, <3>1
  <2>7. CASE ~(LeftInSilence(c) /\ k = reads[c])
    <3>1. HadAnswer(c, k)
      BY <2>1, <2>2, <2>3, <2>7 DEF Answered, Done
    <3>2. CASE \E i : AnswersTo(c, k) = {i}
      <4>1. Cardinality(AnswersTo(c, k)) = 1
        BY <2>4, <3>2
      <4>. QED BY <2>7, <4>1
    <3>3. CASE c \in broken /\ AnswersTo(c, k) = {}
      BY <2>5, <2>7, <3>3
    <3>. QED BY <3>1, <3>2, <3>3 DEF HadAnswer
  <2>. QED BY <2>6, <2>7
<1>. QED BY <1>1, <1>2, <1>3, PTL DEF Spec

=============================================================================
