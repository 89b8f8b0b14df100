------------------------ MODULE ClientSession_proofs ------------------------
(***************************************************************************)
(* Theorems about ClientSession, for a connection with room for any number *)
(* of frames, a user who does anything and a server that sends anything.   *)
(***************************************************************************)
EXTENDS ClientSession, TLAPS

\* v is in the queue q.
Has(q, v) == \E i \in DOMAIN q : q[i] = v

\* What is in a queue to which a frame is added.
LEMMA AppendHas ==
    ASSUME NEW S, NEW q \in Seq(S), NEW x \in S, NEW v, Has(Append(q, x), v)
    PROVE  Has(q, v) \/ x = v
<1>1. PICK i \in DOMAIN Append(q, x) : Append(q, x)[i] = v
  BY DEF Has
<1>2. CASE i \in DOMAIN q
  BY <1>1, <1>2 DEF Has
<1>3. CASE i \notin DOMAIN q
  BY <1>1, <1>3
<1>. QED BY <1>2, <1>3

\* What is left in a queue whose head is taken.
LEMMA TailHas ==
    ASSUME NEW S, NEW q \in Seq(S), q # <<>>, NEW v
    PROVE  /\ Has(Tail(q), v) => Has(q, v)
           /\ Head(q) = v => Has(q, v)
<1>1. ASSUME Has(Tail(q), v) PROVE Has(q, v)
  <2>1. PICK i \in DOMAIN Tail(q) : Tail(q)[i] = v
    BY <1>1 DEF Has
  <2>2. i + 1 \in DOMAIN q /\ q[i + 1] = v
    BY <2>1
  <2>. QED BY <2>2 DEF Has
<1>2. ASSUME Head(q) = v PROVE Has(q, v)
  <2>1. 1 \in DOMAIN q /\ q[1] = v
    BY <1>2
  <2>. QED BY <2>1 DEF Has
<1>. QED BY <1>1, <1>2

-----------------------------------------------------------------------------
(* Types *)

\* The types hold initially.
LEMMA TypeInit == Init => TypeOK
<1>. SUFFICES ASSUME Init PROVE TypeOK
  OBVIOUS
<1>1. /\ events \in Seq({"refresh", "plain", "connectionLost"})
      /\ toServer \in Seq(Request) /\ Len(toServer) <= Room
      /\ toClient \in Seq(Frame) /\ Len(toClient) <= Room
  BY SessionConstantsOK DEF Init
<1>2. asks \in 0..MaxAsks /\ pushes \in 0..MaxPushes
  BY SessionConstantsOK DEF Init
<1>3. {timer, running, read_shut, closed, session, held, misled} \subseteq BOOLEAN
  BY DEF Init
<1>. QED BY <1>1, <1>2, <1>3 DEF Init, TypeOK, Frame, WindowPCs

\* Adding a frame where there is room keeps a queue a queue.
LEMMA AppendType ==
    ASSUME NEW S, NEW q \in Seq(S), NEW x \in S, Len(q) < Room
    PROVE  Append(q, x) \in Seq(S) /\ Len(Append(q, x)) <= Room
  BY SessionConstantsOK

\* What a client sends keeps the queue a queue, and within its room.
LEMMA SendRequestType ==
    ASSUME TypeOK, NEW r \in Request, SendRequest(r)
    PROVE  toServer' \in Seq(Request) /\ Len(toServer') <= Room
<1>1. CASE server = "closed"
  BY <1>1 DEF TypeOK, SendRequest
<1>2. CASE server # "closed"
  BY <1>2, AppendType DEF TypeOK, SendRequest
<1>. QED BY <1>1, <1>2

\* A socket that is closed leaves what was sent, or nothing.
LEMMA CloseSocketType ==
    ASSUME TypeOK, NEW u, CloseSocket(u)
    PROVE  closed' \in BOOLEAN /\ toServer' \in Seq(Request) /\ Len(toServer') <= Room
<1>1. <<>> \in Seq(Request) /\ Len(<<>>) <= Room
  BY SessionConstantsOK
<1>. QED BY <1>1 DEF TypeOK, CloseSocket

\* Taking the first frame keeps a queue within its room.
LEMMA TailType ==
    ASSUME NEW S, NEW q \in Seq(S), q # <<>>, Len(q) <= Room
    PROVE  Tail(q) \in Seq(S) /\ Len(Tail(q)) <= Room /\ Head(q) \in S
  BY SessionConstantsOK

\* Every step keeps the types.
LEMMA TypeNext == TypeOK /\ [Next]_vars => TypeOK'
<1>. SUFFICES ASSUME TypeOK, [Next]_vars PROVE TypeOK'
  OBVIOUS
<1>. USE SessionConstantsOK DEF TypeOK, WindowPCs
<1>1. CASE Connect \/ SendRegister
  BY <1>1, CloseSocketType, SendRequestType
  DEF Connect, SendRegister, Exit, service, Request
<1>2. CASE AwaitAnswer
  <2>1. CASE AtEnd /\ Exit(<<>>) /\ UNCHANGED <<timer, reader, toClient>>
    BY <1>2, <2>1, CloseSocketType DEF AwaitAnswer, Exit, service
  <2>2. CASE toClient # <<>> /\ toClient' = Tail(toClient)
    <3>1. toClient' \in Seq(Frame) /\ Len(toClient') <= Room
      BY <2>2, TailType
    <3>. QED BY <1>2, <2>2, <3>1, CloseSocketType DEF AwaitAnswer, Exit, service
  <2>. QED BY <1>2, <2>1, <2>2 DEF AwaitAnswer
<1>3. CASE UserActs \/ FirstRefresh \/ UserCloses \/ StopFlag \/ StopReading
  <2>1. CASE UserActs
    BY <2>1 DEF UserActs, service
  <2>2. CASE FirstRefresh \/ UserCloses \/ StopFlag
    BY <2>2 DEF FirstRefresh, UserCloses, StopFlag, service
  <2>3. CASE StopReading
    BY <2>3 DEF StopReading, ShutReading, service
  <2>. QED BY <1>3, <2>1, <2>2, <2>3
<1>4. CASE SlotSends \/ SendQuit
  BY <1>4, SendRequestType DEF SlotSends, SendQuit, Request, service
<1>5. CASE HandleSignal
  BY <1>5 DEF HandleSignal, service
<1>6. CASE WaitForThread \/ Close \/ Destroy
  BY <1>6, CloseSocketType DEF WaitForThread, Close, Destroy, service
<1>7. CASE ReaderStep
  <2>1. CASE ReaderLoop \/ ReaderFails
    BY <2>1 DEF ReaderLoop, ReaderFails, service
  <2>2. CASE ReaderReceives
    <3>1. toClient' \in Seq(Frame) /\ Len(toClient') <= Room
      <4>1. CASE toClient' = toClient
        BY <4>1
      <4>2. CASE toClient # <<>> /\ toClient' = Tail(toClient)
        BY <4>2, TailType
      <4>. QED BY <2>2, <4>1, <4>2 DEF ReaderReceives
    <3>2. events' \in Seq({"refresh", "plain", "connectionLost"})
      <4>1. CASE events' = events
        BY <4>1
      <4>2. ASSUME NEW e \in {"refresh", "plain"}, events' = Append(events, e)
            PROVE  events' \in Seq({"refresh", "plain", "connectionLost"})
        BY <4>2
      <4>. QED BY <2>2, <4>1, <4>2 DEF ReaderReceives
    <3>. QED BY <2>2, <3>1, <3>2 DEF ReaderReceives, AfterSignal, service
  <2>3. CASE ReaderEnds
    BY <2>3 DEF ReaderEnds, service
  <2>. QED BY <1>7, <2>1, <2>2, <2>3 DEF ReaderStep
<1>8. CASE Serve
  <2>1. toServer' \in Seq(Request) /\ Len(toServer') <= Room
    BY <1>8, TailType DEF Serve
  <2>. QED BY <1>8, <2>1 DEF Serve, AnswerTo, Frame, client
<1>9. CASE Answer
  <2>1. toClient' \in Seq(Frame) /\ Len(toClient') <= Room
    <3>1. CASE toClient' = toClient
      BY <3>1
    <3>2. CASE Len(toClient) < Room /\ toClient' = Append(toClient, answer)
      BY <3>2, AppendType
    <3>. QED BY <1>9, <3>1, <3>2 DEF Answer
  <2>. QED BY <1>9, <2>1 DEF Answer, Frame, client
<1>10. CASE EndOfStream \/ HoldUp \/ LetGo
  BY <1>10 DEF EndOfStream, AfterStream, HoldUp, LetGo, client
<1>11. CASE CleanUp \/ ServerFails
  <2>1. <<>> \in Seq(Request) /\ <<>> \in Seq(Frame) /\ Len(<<>>) <= Room
    OBVIOUS
  <2>. QED BY <1>11, <2>1 DEF CleanUp, ServerFails, client
<1>12. ASSUME NEW f \in {"plain", "refresh", "notice", "long"}, Push(f) PROVE TypeOK'
  <2>1. toClient' \in Seq(Frame) /\ Len(toClient') <= Room
    BY <1>12, AppendType DEF Push, Frame
  <2>. QED BY <1>12, <2>1 DEF Push, client
<1>13. CASE UNCHANGED vars
  BY <1>13 DEF vars, client, service
<1>. QED
  BY <1>1, <1>2, <1>3, <1>4, <1>5, <1>6, <1>7, <1>8, <1>9, <1>10, <1>11, <1>12, <1>13
  DEF Next, MainStep, ServerStep

\* Every variable keeps its type, and neither direction of the connection ever
\* holds more than there is room for.
THEOREM TypeCorrect == Spec => []TypeOK
<1>. QED BY TypeInit, TypeNext, PTL DEF Spec

-----------------------------------------------------------------------------
(* The order of the end *)

\* The main thread closes the socket last, after it has waited for a
\* NetworkThread whose recv it had ended before: "wait" is reached through
\* ShutReading only.
Ending ==
    /\ gui \in {"connect", "register", "await"} => reader = "none" /\ ~closed
    /\ gui = "wait" => read_shut
    /\ gui \in {"close", "destroy"} => reader = "done"
    /\ closed => gui \in {"destroy", "exited"}
    /\ ReaderEndsFirst

\* Both threads end in the order of stopThread.
LEMMA EndingNext == TypeOK /\ Ending /\ [Next]_vars => Ending'
<1>. SUFFICES ASSUME TypeOK, Ending, [Next]_vars PROVE Ending'
  OBVIOUS
<1>. USE DEF Ending, ReaderEndsFirst
<1>1. CASE Connect \/ SendRegister \/ AwaitAnswer
  BY <1>1 DEF Connect, SendRegister, AwaitAnswer, Exit, CloseSocket
<1>2. CASE UserActs \/ SlotSends \/ FirstRefresh \/ HandleSignal \/ UserCloses \/ SendQuit
  BY <1>2 DEF UserActs, SlotSends, FirstRefresh, HandleSignal, UserCloses, SendQuit
<1>3. CASE StopFlag \/ StopReading
  BY <1>3 DEF StopFlag, StopReading, ShutReading
<1>4. CASE WaitForThread
  BY <1>4 DEF WaitForThread, AtEnd
<1>5. CASE Close \/ Destroy
  BY <1>5 DEF Close, Destroy, CloseSocket
<1>6. CASE ReaderStep
  BY <1>6 DEF ReaderStep, ReaderLoop, ReaderReceives, ReaderFails, ReaderEnds, TypeOK
<1>7. CASE \/ ServerStep \/ HoldUp \/ LetGo \/ ServerFails
           \/ \E frame \in {"plain", "refresh", "notice", "long"} : Push(frame)
  BY <1>7 DEF ServerStep, Serve, Answer, EndOfStream, CleanUp, HoldUp, LetGo, ServerFails, Push,
     client
<1>8. CASE UNCHANGED vars
  BY <1>8 DEF vars, client
<1>. QED BY <1>1, <1>2, <1>3, <1>4, <1>5, <1>6, <1>7, <1>8 DEF Next, MainStep

\* The NetworkThread has ended when closeEvent, or main(), closes the socket it
\* reads from (mainwindow.cpp:577-593, network.cpp:20-23).
THEOREM ReaderAlwaysEndsFirst == Spec => []ReaderEndsFirst
<1>1. Init => Ending
  BY DEF Init, Ending, ReaderEndsFirst
<1>2. Ending => ReaderEndsFirst
  BY DEF Ending
<1>. QED BY <1>1, <1>2, EndingNext, TypeInit, TypeNext, PTL DEF Spec

-----------------------------------------------------------------------------
(* The window and the registry *)

\* A welcome, from the answer in hand over the connection to the window, means
\* a session that only the end of the server's thread takes away; and so does a
\* 201 or a 603, which main() would accept as well.
WelcomeMeansSession ==
    /\ gui = "connect" => server = "none"
    /\ server # "closed" =>
        /\ answer \in {"ok", "refresh"} => session
        /\ Has(toClient, "ok") \/ Has(toClient, "refresh") => session
        /\ gui \in {"window", "send"} /\ ~misled => session

\* A welcome is only ever under way to a user who is registered.
LEMMA WelcomeNext == TypeOK /\ WelcomeMeansSession /\ [Next]_vars => WelcomeMeansSession'
<1>. SUFFICES ASSUME TypeOK, WelcomeMeansSession, [Next]_vars PROVE WelcomeMeansSession'
  OBVIOUS
<1>1. CASE Connect \/ SendRegister
  BY <1>1 DEF Connect, SendRegister, Exit, service, WelcomeMeansSession, Has
<1>2. CASE AwaitAnswer
  <2>1. CASE toClient' = toClient /\ gui' = "exited" /\ UNCHANGED service
    BY <2>1 DEF service, WelcomeMeansSession, Has
  <2>2. CASE toClient # <<>> /\ toClient' = Tail(toClient)
    <3>1. ASSUME NEW f \in {"ok", "refresh"}
          PROVE  /\ Has(toClient, f)' => Has(toClient, f)
                 /\ Head(toClient) = f => Has(toClient, f)
      <4>1. /\ Has(Tail(toClient), f) => Has(toClient, f)
            /\ Head(toClient) = f => Has(toClient, f)
        BY <2>2, TailHas DEF TypeOK
      <4>. QED BY <2>2, <4>1 DEF Has
    <3>. QED BY <1>2, <2>2, <3>1 DEF AwaitAnswer, Accepted, Exit, service, WelcomeMeansSession
  <2>. QED BY <1>2, <2>1, <2>2 DEF AwaitAnswer, Exit
<1>3. CASE \/ UserActs \/ SlotSends \/ FirstRefresh \/ HandleSignal \/ UserCloses \/ SendQuit
           \/ StopFlag \/ StopReading \/ WaitForThread \/ Close \/ Destroy
  <2>1. UNCHANGED <<toClient, service, misled>> /\ gui' # "connect"
    BY <1>3 DEF UserActs, SlotSends, FirstRefresh, HandleSignal, UserCloses, SendQuit,
       StopFlag, StopReading, WaitForThread, Close, Destroy
  <2>2. gui' \in {"window", "send"} => gui \in {"window", "send"}
    BY <1>3 DEF UserActs, SlotSends, FirstRefresh, HandleSignal, UserCloses, SendQuit,
       StopFlag, StopReading, WaitForThread, Close, Destroy
  <2>. QED BY <2>1, <2>2 DEF service, WelcomeMeansSession, Has
<1>4. CASE ReaderStep
  <2>1. UNCHANGED <<gui, service, misled>>
    BY <1>4 DEF ReaderStep, ReaderLoop, ReaderReceives, ReaderFails, ReaderEnds
  <2>2. toClient' = toClient \/ (toClient # <<>> /\ toClient' = Tail(toClient))
    BY <1>4 DEF ReaderStep, ReaderLoop, ReaderReceives, ReaderFails, ReaderEnds
  <2>3. ASSUME NEW f \in {"ok", "refresh"} PROVE Has(toClient, f)' => Has(toClient, f)
    <3>1. toClient # <<>> => (Has(Tail(toClient), f) => Has(toClient, f))
      BY TailHas DEF TypeOK
    <3>. QED BY <2>2, <3>1 DEF Has
  <2>. QED BY <2>1, <2>3 DEF service, WelcomeMeansSession
<1>5. CASE Serve
  <2>1. /\ UNCHANGED <<gui, toClient, misled>> /\ server \notin {"none", "closed"}
        /\ session' \/ (session' = session /\ answer' \notin {"ok", "refresh"})
    BY <1>5 DEF Serve, AnswerTo, client
  <2>. QED BY <1>5, <2>1 DEF WelcomeMeansSession, Has, Serve
<1>6. CASE Answer
  <2>1. /\ UNCHANGED <<gui, session, misled>> /\ server \notin {"none", "closed"} /\ answer' = "plain"
        /\ toClient' = toClient \/ toClient' = Append(toClient, answer)
    BY <1>6 DEF Answer, client
  <2>2. ASSUME NEW f \in {"ok", "refresh"}
        PROVE  Has(toClient, f)' => Has(toClient, f) \/ answer = f
    <3>1. CASE toClient' = toClient
      BY <3>1 DEF Has
    <3>2. Has(Append(toClient, answer), f) => Has(toClient, f) \/ answer = f
      BY AppendHas DEF TypeOK
    <3>. QED BY <2>1, <3>1, <3>2 DEF Has
  <2>. QED BY <2>1, <2>2 DEF WelcomeMeansSession
<1>7. CASE EndOfStream \/ HoldUp \/ LetGo
  BY <1>7 DEF EndOfStream, AfterStream, HoldUp, LetGo, client, WelcomeMeansSession, Has
<1>8. CASE CleanUp \/ ServerFails
  BY <1>8 DEF CleanUp, ServerFails, client, WelcomeMeansSession
<1>9. ASSUME NEW f \in {"plain", "refresh", "notice", "long"}, Push(f) PROVE WelcomeMeansSession'
  <2>1. /\ Has(toClient, "ok")' => Has(toClient, "ok")
        /\ Has(toClient, "refresh")' => Has(toClient, "refresh") \/ session
    BY <1>9, AppendHas DEF Push, TypeOK, Frame, Has
  <2>. QED BY <1>9, <2>1 DEF Push, client, WelcomeMeansSession
<1>10. CASE UNCHANGED vars
  BY <1>10 DEF vars, client, service, WelcomeMeansSession, Has
<1>. QED
  BY <1>1, <1>2, <1>3, <1>4, <1>5, <1>6, <1>7, <1>8, <1>9, <1>10
  DEF Next, MainStep, ServerStep

\* A window that no stray 602 opened is of a user who is in the registry, while
\* the server's thread is there (client/main.cpp:85-110): whichever broadcasts,
\* DMs and 602s of the descriptor number's last owner arrive, and in which order.
THEOREM WindowAlwaysRegistered == Spec => []WindowRegistered
<1>1. Init => WelcomeMeansSession
  BY DEF Init, WelcomeMeansSession, Has
<1>2. WelcomeMeansSession => WindowRegistered
  BY DEF WelcomeMeansSession, WindowRegistered
<1>. QED BY <1>1, <1>2, WelcomeNext, TypeInit, TypeNext, PTL DEF Spec

-----------------------------------------------------------------------------
(* No false alarm *)

\* A thread that fails with running_ still set has met the end of the server's
\* side, or is deaf: stopThread resets running_ before it shuts the reading side.
Truthful ==
    /\ gui = "connect" => server = "none"
    /\ gui \in {"shut", "wait", "close", "destroy"} => ~running
    /\ read_shut => ~running
    /\ reader = "failed" /\ running => server = "closed" \/ Deaf
    /\ Has(events, "connectionLost") => server = "closed" \/ Deaf

\* Nobody but the server's side reads or empties what a deaf client left: once
\* the connection is lost, it stays lost.
LEMMA LossIsFinal ==
    ASSUME TypeOK, Ending, Truthful, [Next]_vars, server = "closed" \/ Deaf
    PROVE  (server = "closed" \/ Deaf)'
<1>1. CASE MainStep \/ UserActs \/ UserCloses
  <2>1. /\ UNCHANGED server \/ gui = "connect"
        /\ UNCHANGED <<reader, toClient>> \/ gui = "await"
    BY <1>1 DEF MainStep, Connect, SendRegister, AwaitAnswer, SlotSends, FirstRefresh,
       HandleSignal, SendQuit, StopFlag, StopReading, WaitForThread, Close, Destroy,
       UserActs, UserCloses, service
  <2>2. CASE gui = "connect"
    BY <2>2 DEF Ending, Truthful, Deaf
  <2>3. CASE gui = "await"
    BY <2>1, <2>3 DEF Ending, Deaf
  <2>. QED BY <2>1, <2>2, <2>3 DEF Deaf
<1>2. CASE ReaderStep
  BY <1>2 DEF ReaderStep, ReaderLoop, ReaderReceives, ReaderFails, ReaderEnds, Deaf, service
<1>3. CASE Serve \/ EndOfStream \/ CleanUp \/ HoldUp \/ LetGo \/ ServerFails
  BY <1>3 DEF Serve, EndOfStream, AfterStream, CleanUp, HoldUp, LetGo, ServerFails, Deaf, client
<1>4. ASSUME UNCHANGED reader,
             server' = server \/ server # "closed",
             NEW f \in Frame, toClient' = toClient \/ toClient' = Append(toClient, f),
             server = "closed" => server' = "closed"
      PROVE  (server = "closed" \/ Deaf)'
  <2>1. toClient # <<>> => toClient' # <<>> /\ Head(toClient') = Head(toClient)
    BY <1>4 DEF TypeOK
  <2>. QED BY <1>4, <2>1 DEF Deaf
<1>5. CASE Answer
  BY <1>4, <1>5 DEF Answer, client, TypeOK
<1>6. ASSUME NEW f \in {"plain", "refresh", "notice", "long"}, Push(f)
      PROVE  (server = "closed" \/ Deaf)'
  BY <1>4, <1>6 DEF Push, client, Frame
<1>7. CASE UNCHANGED vars
  BY <1>7 DEF vars, client, service, Deaf
<1>. QED BY <1>1, <1>2, <1>3, <1>5, <1>6, <1>7 DEF Next, ServerStep

\* An alarm is only ever raised for a reason.
LEMMA TruthfulNext == TypeOK /\ Ending /\ Truthful /\ [Next]_vars => Truthful'
<1>. SUFFICES ASSUME TypeOK, Ending, Truthful, [Next]_vars PROVE Truthful'
  OBVIOUS
<1>1. (gui = "connect" => server = "none")'
  <2>1. CASE gui = "connect"
    BY <2>1 DEF Truthful, Next, vars, client, service, MainStep, ServerStep, ReaderStep,
       Connect, SendRegister, AwaitAnswer, SlotSends, FirstRefresh, HandleSignal, SendQuit,
       StopFlag, StopReading, WaitForThread, Close, Destroy, UserActs, UserCloses, Exit,
       ReaderLoop, ReaderReceives, ReaderFails, ReaderEnds,
       Serve, Answer, EndOfStream, CleanUp, HoldUp, LetGo, ServerFails, Push
  <2>2. CASE gui # "connect"
    BY <2>2 DEF Next, vars, client, MainStep, ServerStep, ReaderStep,
       Connect, SendRegister, AwaitAnswer, SlotSends, FirstRefresh, HandleSignal, SendQuit,
       StopFlag, StopReading, WaitForThread, Close, Destroy, UserActs, UserCloses, Exit,
       ReaderLoop, ReaderReceives, ReaderFails, ReaderEnds,
       Serve, Answer, EndOfStream, CleanUp, HoldUp, LetGo, ServerFails, Push
  <2>. QED BY <2>1, <2>2
<1>2. /\ (gui \in {"shut", "wait", "close", "destroy"} => ~running)'
      /\ (read_shut => ~running)'
      /\ running' => running
  BY DEF Truthful, TypeOK, Next, vars, client, MainStep, ServerStep, ReaderStep,
     Connect, SendRegister, AwaitAnswer, SlotSends, FirstRefresh, HandleSignal, SendQuit,
     StopFlag, StopReading, ShutReading, WaitForThread, Close, Destroy, UserActs, UserCloses,
     Exit, ReaderLoop, ReaderReceives, ReaderFails, ReaderEnds,
     Serve, Answer, EndOfStream, CleanUp, HoldUp, LetGo, ServerFails, Push
<1>3. (reader = "failed" /\ running => server = "closed" \/ Deaf)'
  <2>. SUFFICES ASSUME reader' = "failed", running' PROVE (server = "closed" \/ Deaf)'
    OBVIOUS
  <2>1. CASE reader = "failed"
    BY <1>2, <2>1, LossIsFinal DEF Truthful
  <2>2. CASE reader # "failed"
    <3>1. ReaderReceives \/ ReaderFails
      BY <2>2 DEF Next, vars, client, MainStep, ServerStep, ReaderStep,
         Connect, SendRegister, AwaitAnswer, SlotSends, FirstRefresh, HandleSignal, SendQuit,
         StopFlag, StopReading, WaitForThread, Close, Destroy, UserActs, UserCloses,
         ReaderLoop, ReaderEnds, Serve, Answer, EndOfStream, CleanUp, HoldUp, LetGo, ServerFails, Push
    <3>2. CASE ReaderReceives
      BY <3>2 DEF ReaderReceives, AfterSignal, Deaf
    <3>3. CASE ReaderFails
      <4>1. server = "closed" /\ server' = server
        BY <1>2, <3>3 DEF ReaderFails, AtEnd, Truthful, Ending, ReaderEndsFirst, service
      <4>. QED BY <4>1
    <3>. QED BY <3>1, <3>2, <3>3
  <2>. QED BY <2>1, <2>2
<1>4. (Has(events, "connectionLost") => server = "closed" \/ Deaf)'
  <2>1. CASE Has(events, "connectionLost")' => Has(events, "connectionLost")
    BY <2>1, LossIsFinal DEF Truthful
  <2>2. CASE ReaderEnds
    <3>1. CASE running
      BY <2>2, <3>1, LossIsFinal DEF ReaderEnds, Truthful
    <3>2. CASE ~running
      BY <2>1, <2>2, <3>2 DEF ReaderEnds, Alarms, Has
    <3>. QED BY <3>1, <3>2
  <2>3. CASE ReaderReceives
    <3>1. \/ events' = events
          \/ \E e \in {"refresh", "plain"} : events' = Append(events, e)
      BY <2>3 DEF ReaderReceives
    <3>2. ASSUME NEW e \in {"refresh", "plain"}, events' = Append(events, e)
          PROVE  Has(events', "connectionLost") => Has(events, "connectionLost")
      BY <3>2, AppendHas DEF TypeOK
    <3>3. Has(events', "connectionLost") => Has(events, "connectionLost")
      BY <3>1, <3>2
    <3>. QED BY <2>1, <3>3 DEF Has
  <2>4. CASE HandleSignal
    BY <2>1, <2>4, TailHas DEF HandleSignal, TypeOK, Has
  <2>5. CASE ~(ReaderEnds \/ ReaderReceives \/ HandleSignal)
    <3>1. events' = events
      BY <2>5 DEF Next, vars, client, MainStep, ServerStep, ReaderStep,
         Connect, SendRegister, AwaitAnswer, SlotSends, FirstRefresh, SendQuit,
         StopFlag, StopReading, WaitForThread, Close, Destroy, UserActs, UserCloses,
         ReaderLoop, ReaderFails, Serve, Answer, EndOfStream, CleanUp, HoldUp, LetGo, ServerFails, Push
    <3>. QED BY <2>1, <3>1 DEF Has
  <2>. QED BY <2>2, <2>3, <2>4, <2>5
<1>. QED BY <1>1, <1>2, <1>3, <1>4 DEF Truthful

\* "Connection lost" is shown for a connection that is lost, and never because
\* the user closes the window (network.cpp:25-29, 36-40).
THEOREM NeverAFalseAlarm == Spec => []NoFalseAlarm
<1>1. Init => Ending /\ Truthful
  BY DEF Init, Ending, ReaderEndsFirst, Truthful, Has
<1>2. Truthful => NoFalseAlarm
  BY DEF Truthful, NoFalseAlarm, Has
<1>. QED BY <1>1, <1>2, EndingNext, TruthfulNext, TypeInit, TypeNext, PTL DEF Spec

=============================================================================
