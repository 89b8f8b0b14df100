----------------------- MODULE ChatServerNotices_proofs -----------------------
(***************************************************************************)
(* A theorem about the notices of ChatServer, for any clients,             *)
(* descriptors, names, addresses and requests: nobody is made INVISIBLE,   *)
(* or restored, without being sent one notice of it.                       *)
(***************************************************************************)
EXTENDS ChatServerMessages_proofs

Notices == {"AUTO_INACTIVE", "STATUS_RESTORED"}

\* A notice that the watchdog has yet to send, and one that c's thread has.
Due(c) == IF c \in to_notify THEN 1 ELSE 0
Owed(c) == IF pc[c] = "restored" \/ (pc[c] = "remember" /\ Restoring(c)) THEN 1 ELSE 0

\* The watchdog marks a session once a round, and sleeps with nobody to tell.
MarkedOnce ==
    /\ wpc = "sleep" => to_notify = {}
    /\ marking # NoConn => wpc = "scan" /\ marking \notin to_notify /\ marking \notin scan
    /\ wpc = "scan" => scan \cap to_notify = {}

\* With the notices to come, a session that has not been reset is told of each mark and
\* of each restoration.
Balanced ==
    \A c \in Conn : pc[c] # "closed" /\ c \notin broken =>
        /\ Told(c, "AUTO_INACTIVE") + Due(c) = marks[c]
        /\ Told(c, "STATUS_RESTORED") + Owed(c) = restorations[c]

\* No step marks a session twice in a round.
LEMMA MarkedOnceNext == Base /\ MarkedOnce /\ [Next]_vars => MarkedOnce'
<1>. SUFFICES ASSUME Base, MarkedOnce, [Next]_vars PROVE MarkedOnce'
  OBVIOUS
<1>. USE DEF Base, Typed, TypeOK, MarkedOnce
<1>1. CASE UNCHANGED dog
  BY <1>1 DEF dog
<1>2. CASE WakeUp
  BY <1>2 DEF WakeUp
<1>3. CASE EndScan
  BY <1>3 DEF EndScan
<1>4. ASSUME NEW d \in Conn, CheckIdle(d) PROVE MarkedOnce'
  BY <1>4, ConstantsOK DEF CheckIdle
<1>5. ASSUME NEW d \in Conn, Mark(d) PROVE MarkedOnce'
  BY <1>5, ConstantsOK DEF Mark, Marked
<1>6. ASSUME NEW d \in Conn, Notify(d) PROVE MarkedOnce'
  BY <1>6 DEF Notify
<1>7. ASSUME NEW c \in Conn, NEW r \in Requests[c], Serve(c, r) PROVE UNCHANGED dog
  BY <1>7 DEF Serve, RefuseRegister, RejectRegister, Register, RefuseStranger, RefuseMalformed,
           Begin, RefuseUnknown, HandleQuit, DropTooLong
<1>8. ASSUME NEW c \in Conn, ThreadStep(c) PROVE UNCHANGED dog
  BY <1>8, ThreadEffect DEF Effect
<1>9. ASSUME NEW c \in Conn,
             (\E f \in Fd, a \in Addr : Accept(c, f, a)) \/ HangUp(c) \/ Reset(c) \/ Elapse(c)
      PROVE  UNCHANGED dog
  BY <1>9 DEF Accept, HangUp, Reset, Elapse
<1>. QED BY <1>1, <1>2, <1>3, <1>4, <1>5, <1>6, <1>7, <1>8, <1>9 DEF Next, WatchdogStep, vars

-----------------------------------------------------------------------------
(* Counting *)

Tellings(c, m) == {i \in DOMAIN wire[c] : wire[c][i].msg = m /\ wire[c][i].to = c}

\* A frame at the end of a wire counts if it is a telling.
LEMMA ToldAppend ==
    ASSUME Base, NEW c \in Conn, NEW m \in Notices, NEW f \in Frame,
           wire'[c] = Append(wire[c], f)
    PROVE  /\ Told(c, m) \in Nat
           /\ Told(c, m)' = IF f.msg = m /\ f.to = c THEN Told(c, m) + 1 ELSE Told(c, m)
<1>1. wire[c] \in Seq(Frame) /\ Len(wire[c]) \in Nat
  BY DEF Base, Typed, TypeOK
<1>2. /\ DOMAIN wire'[c] = DOMAIN wire[c] \cup {Len(wire[c]) + 1}
      /\ wire'[c][Len(wire[c]) + 1] = f
      /\ \A i \in DOMAIN wire[c] : wire'[c][i] = wire[c][i]
      /\ DOMAIN wire[c] = 1..Len(wire[c])
  BY <1>1
<1>3. IsFiniteSet(Tellings(c, m)) /\ Len(wire[c]) + 1 \notin Tellings(c, m)
  <2>1. Tellings(c, m) \subseteq 1..Len(wire[c])
    BY <1>2 DEF Tellings
  <2>2. IsFiniteSet(1..Len(wire[c]))
    BY <1>1, FS_Interval
  <2>. QED BY <1>1, <2>1, <2>2, FS_Subset
<1>4. Told(c, m) = Cardinality(Tellings(c, m))
  BY DEF Told, Tellings
<1>5. Told(c, m)' = Cardinality({i \in DOMAIN wire'[c] : wire'[c][i].msg = m /\ wire'[c][i].to = c})
  BY DEF Told
<1>6. {i \in DOMAIN wire'[c] : wire'[c][i].msg = m /\ wire'[c][i].to = c}
        = IF f.msg = m /\ f.to = c THEN Tellings(c, m) \cup {Len(wire[c]) + 1} ELSE Tellings(c, m)
  BY <1>2 DEF Tellings
<1>7. Cardinality(Tellings(c, m)) \in Nat
  BY <1>3, FS_CardinalityType
<1>8. Cardinality(Tellings(c, m) \cup {Len(wire[c]) + 1}) = Cardinality(Tellings(c, m)) + 1
  BY <1>3, FS_AddElement
<1>. QED BY <1>4, <1>5, <1>6, <1>7, <1>8

\* Notices are counted.
LEMMA ToldType ==
    ASSUME Base, NEW c \in Conn, NEW m \in Notices
    PROVE  Told(c, m) \in Nat
<1>1. wire[c] \in Seq(Frame) /\ Len(wire[c]) \in Nat /\ DOMAIN wire[c] = 1..Len(wire[c])
  BY DEF Base, Typed, TypeOK
<1>2. Tellings(c, m) \subseteq 1..Len(wire[c])
  BY <1>1 DEF Tellings
<1>3. IsFiniteSet(Tellings(c, m))
  <2>1. IsFiniteSet(1..Len(wire[c]))
    BY <1>1, FS_Interval
  <2>. QED BY <1>2, <2>1, FS_Subset
<1>4. Told(c, m) = Cardinality(Tellings(c, m))
  BY DEF Told, Tellings
<1>. QED BY <1>3, <1>4, FS_CardinalityType

-----------------------------------------------------------------------------
(* What each step does to the balance *)

\* A step that gives c no notice.
NoNotice(c) ==
    wire' = wire \/ \E m \in Frame : Send(m.to, m) /\ ~(m.to = c /\ m.msg \in Notices)

\* Without a notice on it, a wire tells as much as before.
LEMMA NoNoticeCounts ==
    ASSUME Base, NEW c \in Conn, NoNotice(c), NEW m \in Notices
    PROVE  Told(c, m)' = Told(c, m)
<1>1. CASE wire'[c] = wire[c]
  BY <1>1 DEF Told
<1>2. ASSUME NEW f \in Frame, Send(f.to, f), ~(f.to = c /\ f.msg \in Notices)
      PROVE  wire'[c] = wire[c] \/ Told(c, m)' = Told(c, m)
  <2>1. wire'[c] = wire[c] \/ wire'[c] = Append(wire[c], f)
    BY <1>2, SendReaches DEF Frame
  <2>2. ~(f.msg = m /\ f.to = c)
    BY <1>2
  <2>. QED BY <2>1, <2>2, ToldAppend
<1>. QED BY <1>1, <1>2 DEF NoNotice

\* Threads tell their own clients only that they have been restored.
LEMMA ThreadNoNotice ==
    ASSUME Base, NEW b \in Conn, ThreadStep(b), NEW c \in Conn
    PROVE  NoNotice(c) \/ (b = c /\ NotifyRestored(c))
<1>1. ASSUME NEW d \in Conn, NEW m \in Messages, ~(d = c /\ m \in Notices),
             Send(d, NewFrame(b, m, d, reads[b], req[b]))
      PROVE  NoNotice(c)
  <2>1. PICK f \in Frame : /\ f = NewFrame(b, m, d, reads[b], req[b]) /\ f.msg = m
                           /\ f.to = d /\ f.by = b /\ f.n = reads[b] /\ f.re = req[b]
    BY ThreadFrame
  <2>. QED BY <1>1, <2>1 DEF NoNotice
<1>. USE DEF Base, Typed, TypeOK
<1>0. /\ {"OK_REGISTER", "STATUS_RESTORED", "BROADCAST_DELIVERY", "FOR_DM"} \subseteq Messages
      /\ {"OK_REGISTER", "BROADCAST_DELIVERY", "FOR_DM"} \cap Notices = {}
  BY DEF Messages, Notices
<1>2. CASE Welcome(b)
  <2>1. Send(b, NewFrame(b, "OK_REGISTER", b, reads[b], req[b]))
    BY <1>2 DEF Welcome
  <2>. QED BY <1>0, <1>1, <2>1
<1>8. CASE NotifyRestored(b) /\ b # c
  <2>1. Send(b, NewFrame(b, "STATUS_RESTORED", b, reads[b], req[b]))
    BY <1>8 DEF NotifyRestored
  <2>. QED BY <1>0, <1>1, <1>8, <2>1
<1>3. CASE SendRefusal(b) \/ Reply(b)
  <2>1. reply[b] \in Messages \ Notices
    BY DEF Messages, Answers, Notices
  <2>. QED BY <1>1, <1>3, <2>1 DEF SendRefusal, Reply
<1>4. ASSUME NEW d \in Conn, SendNext(b, d) PROVE NoNotice(c)
  <2>1. Send(d, NewFrame(b, "BROADCAST_DELIVERY", d, reads[b], req[b]))
    BY <1>4 DEF SendNext
  <2>. QED BY <1>0, <1>1, <2>1
<1>5. ASSUME NEW d \in Conn, Deliver(b, d) PROVE NoNotice(c)
  <2>1. Send(d, NewFrame(b, "FOR_DM", d, reads[b], req[b]))
    BY <1>5 DEF Deliver
  <2>. QED BY <1>0, <1>1, <2>1
<1>6. CASE Restore(b) \/ SetStatus(b) \/ Remember(b) \/ Touch(b) \/ CollectTargets(b)
             \/ ListUsers(b) \/ LookupUser(b) \/ EndOfStream(b) \/ RemoveSession(b)
             \/ CloseSocket(b)
  BY <1>6 DEF NoNotice, Restore, SetStatus, Remember, Touch, CollectTargets, ListUsers, LookupUser,
              EndOfStream, RemoveSession, CloseSocket
<1>7. ASSUME NEW d \in Conn, CheckAlive(b, d) PROVE NoNotice(c)
  BY <1>7 DEF NoNotice, CheckAlive
<1>. QED BY <1>2, <1>3, <1>4, <1>5, <1>6, <1>7, <1>8 DEF ThreadStep

\* A step that changes nothing in the account of c.
Level(c) ==
    /\ NoNotice(c)
    /\ c \in to_notify' <=> c \in to_notify
    /\ Owed(c)' = Owed(c)
    /\ marks'[c] = marks[c] /\ restorations'[c] = restorations[c]

\* A step that is level for c leaves its account in balance.
LEMMA LevelBalances ==
    ASSUME Base, Balanced, NEW c \in Conn, pc[c] # "closed", c \notin broken, Level(c)
    PROVE  /\ Told(c, "AUTO_INACTIVE")' + Due(c)' = marks'[c]
           /\ Told(c, "STATUS_RESTORED")' + Owed(c)' = restorations'[c]
<1>1. /\ Told(c, "AUTO_INACTIVE")' = Told(c, "AUTO_INACTIVE")
      /\ Told(c, "STATUS_RESTORED")' = Told(c, "STATUS_RESTORED")
  BY NoNoticeCounts DEF Level, Notices
<1>2. Due(c)' = Due(c) /\ Owed(c)' = Owed(c)
  BY DEF Level, Due
<1>. QED BY <1>1, <1>2 DEF Level, Balanced

\* Serving a request, and another thread's step.
LEMMA ServeLevel ==
    ASSUME Base, NEW b \in Conn, NEW r \in Requests[b], Serve(b, r), NEW c \in Conn
    PROVE  Level(c)
<1>. USE DEF Base, Typed, TypeOK
<1>1. NoNotice(c)
  BY ServeWrites DEF NoNotice
<1>2. /\ to_notify' = to_notify /\ pc[b] = "recv" /\ pc'[b] \notin {"remember", "restored"}
      /\ b # c => pc'[c] = pc[c] /\ req'[c] = req[c]
  BY DEF Serve, RefuseRegister, RejectRegister, Register, RefuseStranger, RefuseMalformed,
         Begin, FirstStep, RefuseUnknown, HandleQuit, DropTooLong, AfterStream, Read, Answer, Goto, dog
<1>3. marks' = marks /\ restorations' = restorations
  BY DEF Serve, RefuseRegister, RejectRegister, Register, RefuseStranger, RefuseMalformed,
         Begin, RefuseUnknown, HandleQuit, DropTooLong, presence, history
<1>4. Owed(c)' = Owed(c)
  BY <1>2 DEF Owed, Restoring
<1>. QED BY <1>1, <1>2, <1>3, <1>4 DEF Level

\* Another thread's steps are level for c.
LEMMA OthersLevel ==
    ASSUME Base, NEW b \in Conn, ThreadStep(b), NEW c \in Conn, b # c
    PROVE  Level(c)
<1>. USE DEF Base, Typed, TypeOK
<1>1. NoNotice(c)
  BY ThreadNoNotice
<1>2. to_notify' = to_notify /\ pc'[c] = pc[c] /\ req'[c] = req[c]
  BY ThreadEffect DEF Effect, dog
<1>3. marks'[c] = marks[c] /\ restorations'[c] = restorations[c]
  <2>1. CASE Restore(b)
    BY <2>1 DEF Restore
  <2>2. CASE ~Restore(b)
    BY <2>2 DEF ThreadStep, SendRefusal, Welcome, SetStatus, Remember, NotifyRestored, Touch,
                CollectTargets, ListUsers, LookupUser, SendNext, CheckAlive, Deliver, Reply,
                EndOfStream, RemoveSession, CloseSocket, presence, history
  <2>. QED BY <2>1, <2>2
<1>4. Owed(c)' = Owed(c)
  BY <1>2 DEF Owed, Restoring
<1>. QED BY <1>1, <1>2, <1>3, <1>4 DEF Level

\* The steps of a thread itself, but those that restore its user and say so.
LEMMA OwnLevel ==
    ASSUME Base, NEW c \in Conn, ThreadStep(c), ~NotifyRestored(c),
           ~(Restore(c) /\ AutoInactive(c))
    PROVE  Level(c)
<1>. USE DEF Base, Typed, TypeOK
<1>1. NoNotice(c)
  BY ThreadNoNotice
<1>2. to_notify' = to_notify
  BY ThreadEffect DEF Effect, dog
<1>3. marks'[c] = marks[c] /\ restorations'[c] = restorations[c]
  BY DEF ThreadStep, SendRefusal, Welcome, Restore, SetStatus, Remember, Touch, CollectTargets,
         ListUsers, LookupUser, SendNext, CheckAlive, Deliver, Reply, EndOfStream, RemoveSession,
         CloseSocket, presence, history
<1>4. Owed(c)' = Owed(c)
  <2>1. CASE SetStatus(c)
    <3>1. /\ pc[c] = "setstatus" /\ pc'[c] = "remember" /\ req' = req
          /\ req[c].type = "CHANGE_STATUS"
      BY <2>1 DEF SetStatus, Goto, RequestFits
    <3>. QED BY <3>1 DEF Owed, Restoring
  <2>2. CASE Remember(c)
    BY <2>2 DEF Remember, Goto, locals, Owed, Restoring
  <2>3. CASE ~SetStatus(c) /\ ~Remember(c)
    <3>1. {pc[c], pc'[c]} \cap {"remember", "restored"} = {}
      BY <2>3 DEF ThreadStep, SendRefusal, Welcome, Restore, Touch, AfterTouch, CollectTargets,
             ListUsers, LookupUser, SendNext, CheckAlive, Deliver, Reply, AfterReply, EndOfStream,
             AfterStream, RemoveSession, CloseSocket, Return, Answer, Goto
    <3>. QED BY <3>1 DEF Owed
  <2>. QED BY <2>1, <2>2, <2>3
<1>. QED BY <1>1, <1>2, <1>3, <1>4 DEF Level

\* A notice of the watchdog is for one user only.
LEMMA NotifyOthers ==
    ASSUME Base, NEW d \in Conn, Notify(d), NEW c \in Conn, d # c
    PROVE  NoNotice(c)
<1>1. "AUTO_INACTIVE" \in Messages
  BY DEF Messages
<1>2. PICK f \in Frame : f = NewFrame(Watchdog, "AUTO_INACTIVE", d, 0, NoRequest) /\ f.to = d
  BY <1>1, NewFrameParts, NoRequestType
<1>3. Send(d, NewFrame(Watchdog, "AUTO_INACTIVE", d, 0, NoRequest))
  BY DEF Notify
<1>. QED BY <1>2, <1>3 DEF NoNotice, Base, Typed, TypeOK

\* The watchdog's steps that do not concern c.
LEMMA WatchdogLevel ==
    ASSUME Base, WatchdogStep, NEW c \in Conn, ~Mark(c), ~Notify(c)
    PROVE  Level(c)
<1>. USE DEF Base, Typed, TypeOK
<1>1. pc' = pc /\ req' = req
  BY DEF WatchdogStep, WakeUp, EndScan, CheckIdle, Mark, Notify, locals
<1>2. Owed(c)' = Owed(c)
  BY <1>1 DEF Owed, Restoring
<1>3. CASE WakeUp \/ EndScan \/ \E d \in Conn : CheckIdle(d)
  BY <1>2, <1>3 DEF WakeUp, EndScan, CheckIdle, presence, history, Level, NoNotice
<1>4. ASSUME NEW d \in Conn, Mark(d), d # c PROVE Level(c)
  BY <1>2, <1>4 DEF Mark, Marked, Level, NoNotice
<1>5. ASSUME NEW d \in Conn, Notify(d), d # c PROVE Level(c)
  <2>1. NoNotice(c)
    BY <1>5, NotifyOthers
  <2>. QED BY <1>2, <1>5, <2>1 DEF Notify, presence, history, Level
<1>. QED BY <1>3, <1>4, <1>5 DEF WatchdogStep

\* Accepting, hanging up, resetting and falling idle.
LEMMA EnvironmentLevel ==
    ASSUME Base, NEW b \in Conn, NEW c \in Conn,
           (\E f \in Fd, a \in Addr : Accept(b, f, a)) \/ HangUp(b) \/ Reset(b) \/ Elapse(b)
    PROVE  Level(c)
<1>1. UNCHANGED <<to_notify, marks, restorations, wire, req>>
  BY DEF Accept, HangUp, Reset, Elapse, dog, presence, history, locals
<1>2. pc'[c] = pc[c] \/ (pc[c] = "new" /\ pc'[c] = "recv")
  BY DEF Accept, HangUp, Reset, Elapse, Goto, Base, Typed, TypeOK
<1>3. Owed(c)' = Owed(c)
  BY <1>1, <1>2 DEF Owed, Restoring
<1>. QED BY <1>1, <1>3 DEF Level, NoNotice

\* A thread that has closed its socket is never back.
LEMMA ClosedStays ==
    ASSUME Base, [Next]_vars, NEW c \in Conn, pc[c] = "closed"
    PROVE  pc'[c] = "closed"
<1>. USE DEF Base, Typed, TypeOK
<1>1. CASE Quiet
  BY <1>1 DEF Quiet
<1>2. ASSUME NEW b \in Conn, (\E f \in Fd, a \in Addr : Accept(b, f, a)) \/ CloseSocket(b)
      PROVE  pc'[c] = "closed"
  BY <1>2 DEF Accept, CloseSocket, Goto
<1>3. ASSUME NEW b \in Conn, (\E r \in Requests[b] : Register(b, r)) \/ RemoveSession(b)
      PROVE  pc'[c] = "closed"
  BY <1>3 DEF Register, RemoveSession, Read, Return, Goto
<1>. QED BY <1>1, <1>2, <1>3, NextQuiet

\* Each mark and each restoration makes one notice due, and each notice settles one.
LEMMA BalancedNext == Base /\ OwnSession /\ Known /\ MarkedOnce /\ Balanced /\ [Next]_vars => Balanced'
<1>. SUFFICES ASSUME Base, OwnSession, Known, MarkedOnce, Balanced, [Next]_vars,
                     NEW c \in Conn, pc'[c] # "closed", c \notin broken'
              PROVE  /\ Told(c, "AUTO_INACTIVE")' + Due(c)' = marks'[c]
                     /\ Told(c, "STATUS_RESTORED")' + Owed(c)' = restorations'[c]
  BY DEF Balanced
<1>0. pc[c] # "closed" /\ c \notin broken
  BY ClosedStays, BrokenStays
<1>1. CASE Level(c)
  BY <1>0, <1>1, LevelBalances
<1>2. /\ Told(c, "AUTO_INACTIVE") \in Nat /\ Told(c, "STATUS_RESTORED") \in Nat
      /\ Told(c, "AUTO_INACTIVE") + Due(c) = marks[c]
      /\ Told(c, "STATUS_RESTORED") + Owed(c) = restorations[c]
      /\ Due(c) \in Nat /\ Owed(c) \in Nat
  BY <1>0, ToldType DEF Notices, Balanced, Due, Owed
<1>3. CASE Mark(c)
  <2>1. /\ NoNotice(c) /\ UNCHANGED <<pc, req, restorations>>
        /\ marks' = [marks EXCEPT ![c] = @ + 1]
    BY <1>3 DEF Mark, NoNotice, locals
  <2>2. /\ Told(c, "AUTO_INACTIVE")' = Told(c, "AUTO_INACTIVE")
        /\ Told(c, "STATUS_RESTORED")' = Told(c, "STATUS_RESTORED")
    BY <2>1, NoNoticeCounts DEF Notices
  <2>3. Due(c) = 0 /\ Due(c)' = 1 /\ Owed(c)' = Owed(c)
    BY <1>3, <2>1, ConstantsOK DEF Mark, Marked, MarkedOnce, Due, Owed, Restoring
  <2>4. marks'[c] = marks[c] + 1 /\ restorations'[c] = restorations[c]
    BY <2>1 DEF Base, Typed, TypeOK
  <2>. QED BY <1>2, <2>2, <2>3, <2>4
<1>4. CASE Notify(c)
  <2>1. /\ c \in to_notify /\ UNCHANGED <<pc, req, marks, restorations>>
        /\ to_notify' = to_notify \ {c}
        /\ Send(c, NewFrame(Watchdog, "AUTO_INACTIVE", c, 0, NoRequest))
    BY <1>4 DEF Notify, presence, history, locals
  <2>2. pc[c] \notin {"new", "closed"}
    BY <1>0, <2>1, ConstantsOK DEF Known, Introduced, OwnSession
  <2>3. "AUTO_INACTIVE" \in Messages
    BY DEF Messages
  <2>4. PICK f \in Frame : /\ f = NewFrame(Watchdog, "AUTO_INACTIVE", c, 0, NoRequest)
                           /\ f.to = c /\ f.msg = "AUTO_INACTIVE"
    BY <2>3, NewFrameParts, NoRequestType
  <2>5. wire'[c] = Append(wire[c], f)
    BY <1>0, <2>1, <2>2, <2>4, OwnWire
  <2>6. /\ Told(c, "AUTO_INACTIVE")' = Told(c, "AUTO_INACTIVE") + 1
        /\ Told(c, "STATUS_RESTORED")' = Told(c, "STATUS_RESTORED")
    BY <2>4, <2>5, ToldAppend DEF Notices
  <2>7. Due(c) = 1 /\ Due(c)' = 0 /\ Owed(c)' = Owed(c)
    BY <2>1 DEF Due, Owed, Restoring
  <2>. QED BY <1>2, <2>1, <2>6, <2>7
<1>5. CASE Restore(c) /\ AutoInactive(c)
  <2>1. /\ UNCHANGED <<wire, to_notify, marks, req>>
        /\ pc[c] = "restore" /\ pc' = [pc EXCEPT ![c] = "remember"]
        /\ restorations' = [restorations EXCEPT ![c] = @ + 1]
    BY <1>5 DEF Restore, Goto, dog, locals
  <2>2. /\ Told(c, "AUTO_INACTIVE")' = Told(c, "AUTO_INACTIVE")
        /\ Told(c, "STATUS_RESTORED")' = Told(c, "STATUS_RESTORED")
    BY <2>1, NoNoticeCounts DEF NoNotice, Notices
  <2>3. req[c].type # "CHANGE_STATUS"
    BY <2>1 DEF Base, Typed, RequestFits
  <2>4. Due(c)' = Due(c) /\ Owed(c) = 0 /\ Owed(c)' = 1
    BY <2>1, <2>3 DEF Due, Owed, Restoring, Base, Typed, TypeOK
  <2>5. marks'[c] = marks[c] /\ restorations'[c] = restorations[c] + 1
    BY <2>1 DEF Base, Typed, TypeOK
  <2>. QED BY <1>2, <2>2, <2>4, <2>5
<1>6. CASE NotifyRestored(c)
  <2>1. /\ UNCHANGED <<to_notify, marks, restorations>>
        /\ pc[c] = "restored" /\ pc' = [pc EXCEPT ![c] = "touch"]
        /\ Send(c, NewFrame(c, "STATUS_RESTORED", c, reads[c], req[c]))
    BY <1>6 DEF NotifyRestored, Goto, dog, presence, history
  <2>2. "STATUS_RESTORED" \in Messages
    BY DEF Messages
  <2>3. PICK f \in Frame : /\ f = NewFrame(c, "STATUS_RESTORED", c, reads[c], req[c])
                           /\ f.to = c /\ f.msg = "STATUS_RESTORED"
    BY <2>2, ThreadFrame
  <2>4. wire'[c] = Append(wire[c], f)
    BY <1>0, <2>1, <2>3, OwnWire
  <2>5. /\ Told(c, "AUTO_INACTIVE")' = Told(c, "AUTO_INACTIVE")
        /\ Told(c, "STATUS_RESTORED")' = Told(c, "STATUS_RESTORED") + 1
    BY <2>3, <2>4, ToldAppend DEF Notices
  <2>6. Due(c)' = Due(c) /\ Owed(c) = 1 /\ Owed(c)' = 0
    BY <2>1 DEF Due, Owed, Base, Typed, TypeOK
  <2>. QED BY <1>2, <2>1, <2>5, <2>6
<1>7. CASE UNCHANGED vars
  <2>1. Level(c)
    BY <1>7 DEF vars, dog, presence, history, locals, Level, NoNotice, Owed, Restoring
  <2>. QED BY <1>1, <2>1
<1>. QED BY <1>1, <1>3, <1>4, <1>5, <1>6, <1>7, ServeLevel, OthersLevel, OwnLevel, WatchdogLevel,
            EnvironmentLevel DEF Next

\* When nothing is under way for a user, each time the watchdog has marked it has its
\* 602 on the wire, and each time its thread has restored it its 603, and there are no
\* other notices, unless its connection has been reset.
THEOREM NoticesAlwaysBalance == Spec => []NoticesBalance
<1>. DEFINE Inv == ServerInv /\ MarkedOnce /\ Balanced
<1>1. Init => Inv
  <2>1. Init => MarkedOnce
    BY DEF Init, MarkedOnce
  <2>2. Init => Balanced
    <3>1. SUFFICES ASSUME Init, NEW c \in Conn
                   PROVE  /\ Due(c) = 0 /\ Owed(c) = 0 /\ marks[c] = 0 /\ restorations[c] = 0
                          /\ Told(c, "AUTO_INACTIVE") = 0 /\ Told(c, "STATUS_RESTORED") = 0
      BY DEF Balanced
    <3>2. wire[c] = <<>>
      BY <3>1 DEF Init
    <3>3. /\ {i \in DOMAIN wire[c] : wire[c][i].msg = "AUTO_INACTIVE" /\ wire[c][i].to = c} = {}
          /\ {i \in DOMAIN wire[c] : wire[c][i].msg = "STATUS_RESTORED" /\ wire[c][i].to = c} = {}
      BY <3>2
    <3>4. Told(c, "AUTO_INACTIVE") = 0 /\ Told(c, "STATUS_RESTORED") = 0
      BY <3>3, FS_EmptySet DEF Told
    <3>5. Due(c) = 0 /\ Owed(c) = 0 /\ marks[c] = 0 /\ restorations[c] = 0
      BY <3>1 DEF Init, Due, Owed
    <3>. QED BY <3>4, <3>5
  <2>. QED BY <2>1, <2>2, ServerInit
<1>2. Inv /\ [Next]_vars => Inv'
  BY ServerNext, MarkedOnceNext, BalancedNext DEF ServerInv
<1>3. Inv => NoticesBalance
  <2>1. SUFFICES ASSUME Inv, NEW c \in Conn, AtRest(c), c \notin broken
                 PROVE  /\ Told(c, "AUTO_INACTIVE") = marks[c]
                        /\ Told(c, "STATUS_RESTORED") = restorations[c]
    BY DEF NoticesBalance
  <2>2. Due(c) = 0 /\ Owed(c) = 0 /\ pc[c] # "closed"
    BY <2>1 DEF AtRest, MarkedOnce, Due, Owed
  <2>3. Told(c, "AUTO_INACTIVE") \in Nat /\ Told(c, "STATUS_RESTORED") \in Nat
    BY <2>1, ToldType DEF ServerInv, Notices
  <2>. QED BY <2>1, <2>2, <2>3 DEF Balanced
<1>. HIDE DEF Inv
<1>. QED BY <1>1, <1>2, <1>3, PTL DEF Spec

=============================================================================
