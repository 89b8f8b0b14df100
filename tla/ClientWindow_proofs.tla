------------------------- MODULE ClientWindow_proofs -------------------------
(***************************************************************************)
(* Theorems about ClientWindow, for any number of other users, whatever    *)
(* this one does and whatever the server sends.                            *)
(***************************************************************************)
EXTENDS ClientWindow, TLAPS

-----------------------------------------------------------------------------
(* Types *)

\* A CHANGE_STATUS carries a status.
ValidRequest == {r \in Request : r.type = "CHANGE_STATUS" => r.status \in Status}

\* The signals that tell of a status, and the one that each tells of when the
\* selector shows combo.
Telling == {"OK_STATUS_CHANGED", "STATUS_RESTORED", "AUTO_INACTIVE"}

Meant(msg, combo) ==
    IF msg = "AUTO_INACTIVE" THEN "INVISIBLE"
    ELSE IF msg = "STATUS_RESTORED" THEN "ACTIVE" ELSE combo

\* Word of a status comes first among what a handler has still to send, and the
\* watchdog's is not part of it.
GoodDue ==
    \A i \in DOMAIN due :
        /\ due[i].msg # "AUTO_INACTIVE"
        /\ i # 1 => due[i].msg \notin Telling

Typed ==
    /\ TypeOK
    /\ toServer \in Seq(ValidRequest)
    /\ GoodDue

\* Every frame the window makes is such a request, ...
LEMMA SentType ==
    ASSUME Typed, NEW r \in Request, r.type = "CHANGE_STATUS" => r.status \in Status,
           toServer' \in {toServer, Sent(r)}
    PROVE  toServer' \in Seq(Request) /\ toServer' \in Seq(ValidRequest)
<1>1. r \in ValidRequest
  BY DEF ValidRequest
<1>2. Append(toServer, r) \in Seq(Request) /\ Append(toServer, r) \in Seq(ValidRequest)
  BY <1>1 DEF Typed, TypeOK
<1>. QED BY <1>2 DEF Typed, TypeOK, Sent

\* ... and every answer or push of the server a signal.
LEMMA PutType ==
    ASSUME TypeOK,
           NEW msg \in {"OK_STATUS_CHANGED", "STATUS_RESTORED", "AUTO_INACTIVE", "OTHER_RESPONSE",
                        "ALL_USERS", "FOR_DM", "BROADCAST_DELIVERY", "GET_USER_INFO_RESPONSE",
                        "connectionLost"},
           NEW who \in SUBSET Peer, Put(msg, who)
    PROVE  toClient' \in Seq(Signal)
<1>1. [msg |-> msg, who |-> who] \in Signal
  BY DEF Signal
<1>. QED BY <1>1 DEF TypeOK, Put

\* A slot takes the head of the queue.
LEMMA HandleType ==
    ASSUME TypeOK, NEW msg, Handle(msg)
    PROVE  toClient' \in Seq(Signal) /\ Head(toClient) \in Signal
  BY DEF TypeOK, Handle

\* Types, initially, ...
LEMMA TypeInit == Init => Typed
<1>. SUFFICES ASSUME Init PROVE Typed
  OBVIOUS
<1>1. /\ toServer \in Seq(Request) /\ toServer \in Seq(ValidRequest)
      /\ toClient \in Seq(Signal) /\ due \in Seq(Signal) /\ DOMAIN due = {}
  BY DEF Init
<1>2. acts \in 0..MaxActs /\ pushes \in 0..MaxPushes
  BY WindowConstantsOK DEF Init
<1>. QED BY <1>1, <1>2 DEF Init, Typed, GoodDue, TypeOK, Status

\* ... when the user acts, ...
LEMMA TypeUser == Typed /\ User => Typed'
<1>. SUFFICES ASSUME Typed, User PROVE Typed'
  OBVIOUS
<1>. USE WindowConstantsOK DEF Typed, GoodDue, TypeOK, status_vars, dm_vars, server_vars
<1>0. ASSUME Act PROVE acts' \in 0..MaxActs
  BY <1>0 DEF Act
<1>1. ASSUME NEW s \in Status, OnChangeStatus(s) PROVE Typed'
  <2>1. /\ [type |-> "CHANGE_STATUS", status |-> s, user |-> NoPeer] \in Request
        /\ [type |-> "CHANGE_STATUS", status |-> s, user |-> NoPeer].status \in Status
    BY DEF Request
  <2>2. toServer' \in Seq(Request) /\ toServer' \in Seq(ValidRequest)
    BY <1>1, <2>1, SentType DEF OnChangeStatus
  <2>3. crossed' \in BOOLEAN
    BY <1>1 DEF OnChangeStatus, ChangePending
  <2>. QED BY <1>0, <1>1, <2>2, <2>3 DEF OnChangeStatus
<1>2. CASE SendGeneral
  <2>1. [type |-> "MESSAGE_GENERAL", status |-> "NONE", user |-> NoPeer] \in Request
    BY DEF Request
  <2>2. toServer' \in Seq(Request) /\ toServer' \in Seq(ValidRequest)
    BY <1>2, <2>1, SentType DEF SendGeneral
  <2>. QED BY <1>0, <1>2, <2>2 DEF SendGeneral
<1>3. CASE SendDm
  <2>1. dmTarget \in Peer
    BY <1>3 DEF SendDm
  <2>2. [type |-> "MESSAGE_DM", status |-> "NONE", user |-> dmTarget] \in Request
    BY <2>1 DEF Request
  <2>3. toServer' \in Seq(Request) /\ toServer' \in Seq(ValidRequest)
    BY <1>3, <2>2, SentType DEF SendDm
  <2>. QED BY <1>0, <1>3, <2>1, <2>3 DEF SendDm, OpenTab
<1>4. ASSUME NEW type \in {"LIST_USERS", "GET_USER_INFO"}, Query(type) PROVE Typed'
  <2>1. [type |-> type, status |-> "NONE", user |-> NoPeer] \in Request
    BY DEF Request
  <2>2. toServer' \in Seq(Request) /\ toServer' \in Seq(ValidRequest)
    BY <1>4, <2>1, SentType DEF Query
  <2>. QED BY <1>0, <1>4, <2>2 DEF Query
<1>5. ASSUME NEW m \in {"General", "DM"}, OnModeChanged(m) PROVE Typed'
  BY <1>5 DEF OnModeChanged
<1>6. ASSUME NEW p \in Peer, SelectTarget(p) \/ OnUserDoubleClicked(p) \/ CloseTab(p)
      PROVE  Typed'
  BY <1>6 DEF SelectTarget, OnUserDoubleClicked, CloseTab, OpenTab
<1>8. CASE CloseEvent
  <2>1. [type |-> "QUIT", status |-> "NONE", user |-> NoPeer] \in Request
    BY DEF Request
  <2>2. toServer' \in Seq(Request) /\ toServer' \in Seq(ValidRequest)
    BY <1>8, <2>1, SentType DEF CloseEvent
  <2>. QED BY <1>8, <2>2 DEF CloseEvent
<1>. QED BY <1>1, <1>2, <1>3, <1>4, <1>5, <1>6, <1>8 DEF User

\* ... when the window handles a signal, ...
LEMMA TypeSlot == Typed /\ Slot => Typed'
<1>. SUFFICES ASSUME Typed, Slot PROVE Typed'
  OBVIOUS
<1>. USE DEF Typed, GoodDue, TypeOK, status_vars, dm_vars, server_vars
<1>1. ListUsers \in Request /\ ListUsers.type # "CHANGE_STATUS"
  BY DEF ListUsers, Request
<1>2. toServer' \in {toServer, Sent(ListUsers)}
      => toServer' \in Seq(Request) /\ toServer' \in Seq(ValidRequest)
  BY <1>1, SentType
<1>3. toClient' \in Seq(Signal) /\ Head(toClient) \in Signal
  BY HandleType DEF Slot, OnStatusChanged, OnStatusRestored, OnAutoInactive, OnAllUsers,
     OnForDm, OnText, OnConnectionLost
<1>4. CASE OnStatusChanged
  BY <1>2, <1>3, <1>4 DEF OnStatusChanged, Confirmed
<1>5. ASSUME NEW s \in Status, Assigned(s)
      PROVE  /\ current_status' \in Status /\ statusCombo' \in Status /\ crossed' \in BOOLEAN
             /\ UNCHANGED <<dm_vars, enabled, open, server_vars, acts>>
  BY <1>5 DEF Assigned, Shown, ChangePending
<1>6. CASE OnStatusRestored \/ OnAutoInactive
  BY <1>2, <1>3, <1>5, <1>6 DEF OnStatusRestored, OnAutoInactive, Status
<1>7. CASE OnAllUsers
  BY <1>3, <1>7 DEF OnAllUsers, Reselected, Signal
<1>8. CASE OnForDm
  BY <1>3, <1>8 DEF OnForDm, OpenTab, Signal
<1>9. CASE OnText \/ OnConnectionLost
  BY <1>3, <1>9 DEF OnText, OnConnectionLost
<1>. QED BY <1>4, <1>6, <1>7, <1>8, <1>9 DEF Slot

\* ... and when the server does something.
LEMMA TypeServer == Typed /\ Server => Typed'
<1>. SUFFICES ASSUME Typed, Server PROVE Typed'
  OBVIOUS
<1>. USE WindowConstantsOK DEF Typed, GoodDue, TypeOK, status_vars, dm_vars, server_vars
<1>1. ASSUME NEW type, Serve(type)
      PROVE  /\ toServer' \in Seq(Request) /\ toServer' \in Seq(ValidRequest)
             /\ Head(toServer) \in ValidRequest /\ Head(toServer).type = type
             /\ UNCHANGED <<statusCombo, current_status, dm_vars, enabled, open, marked, pushes,
                            acts>>
  BY <1>1 DEF Serve
<1>2. \A msg \in {"OK_STATUS_CHANGED", "STATUS_RESTORED", "BROADCAST_DELIVERY", "OTHER_RESPONSE",
                  "GET_USER_INFO_RESPONSE"} : Notice(msg) \in Signal /\ Notice(msg).msg = msg
  BY DEF Notice, Signal
<1>3. ASSUME NEW x \in Signal, x.msg # "AUTO_INACTIVE", due' = <<x>>
      PROVE  due' \in Seq(Signal) /\ GoodDue'
  BY <1>3
<1>4. crossed' \in BOOLEAN
  BY DEF Server, ServeChangeStatus, ServeMessage, ServeQuery, ServeQuit, HandlerSends,
     MarkInactive, NotifyInactive, PeerWrites, Fail
<1>5. CASE ServeChangeStatus
  <2>1. Head(toServer).status \in Status
    BY <1>1, <1>5 DEF ServeChangeStatus, ValidRequest
  <2>. QED BY <1>1, <1>2, <1>3, <1>4, <1>5, <2>1 DEF ServeChangeStatus
<1>6. CASE ServeMessage
  <2>1. PICK answer \in {"BROADCAST_DELIVERY", "OTHER_RESPONSE"} :
           /\ Serve(IF answer = "BROADCAST_DELIVERY" THEN "MESSAGE_GENERAL" ELSE "MESSAGE_DM")
           /\ due' = IF Restores THEN <<Notice("STATUS_RESTORED"), Notice(answer)>>
                              ELSE <<Notice(answer)>>
    BY <1>6 DEF ServeMessage
  <2>2. due' \in Seq(Signal) /\ GoodDue'
    <3>1. CASE Restores
      <4>1. due' = <<Notice("STATUS_RESTORED"), Notice(answer)>>
        BY <1>2, <2>1, <3>1
      <4>2. Notice(answer).msg \notin Telling
        BY <1>2 DEF Telling
      <4>. QED BY <1>2, <4>1, <4>2
    <3>2. CASE ~Restores
      <4>1. due' = <<Notice(answer)>>
        BY <1>2, <2>1, <3>2
      <4>. QED BY <1>2, <1>3, <4>1
    <3>. QED BY <3>1, <3>2
  <2>3. "ACTIVE" \in Status
    BY DEF Status
  <2>. QED BY <1>1, <1>4, <1>6, <2>1, <2>2, <2>3 DEF ServeMessage
<1>7. CASE ServeQuery
  <2>1. \A who \in SUBSET Peer : [msg |-> "ALL_USERS", who |-> who] \in Signal
    BY DEF Signal
  <2>. QED BY <1>1, <1>2, <1>3, <1>4, <1>7, <2>1 DEF ServeQuery
<1>8. CASE ServeQuit
  <2>1. toClient' \in Seq(Signal)
    BY <1>8, PutType DEF ServeQuit
  <2>. QED BY <1>1, <1>4, <1>8, <2>1 DEF ServeQuit
<1>9. CASE HandlerSends
  <2>1. Head(due) \in Signal /\ Tail(due) \in Seq(Signal)
    BY <1>9 DEF HandlerSends
  <2>2. \A i \in DOMAIN Tail(due) : i + 1 \in DOMAIN due /\ i + 1 # 1 /\ Tail(due)[i] = due[i + 1]
    BY <1>9 DEF HandlerSends
  <2>3. toClient' \in Seq(Signal)
    BY <1>9, <2>1, PutType DEF HandlerSends, Signal
  <2>. QED BY <1>9, <2>1, <2>2, <2>3 DEF HandlerSends
<1>10. CASE NotifyInactive
  <2>1. toClient' \in Seq(Signal)
    BY <1>10, PutType DEF NotifyInactive
  <2>. QED BY <1>10, <2>1 DEF NotifyInactive
<1>11. CASE MarkInactive \/ Fail \/ \E p \in Peer : PeerWrites(p)
  <2>1. toClient' \in Seq(Signal)
    BY <1>11, PutType DEF MarkInactive, Fail, PeerWrites
  <2>2. /\ pushes' \in 0..MaxPushes
        /\ UNCHANGED <<statusCombo, current_status, dm_vars, enabled, open, toServer,
                       manual_status, due, acts>>
    <3>1. Push
      BY <1>11 DEF MarkInactive, Fail, PeerWrites
    <3>. QED BY <3>1 DEF Push
  <2>3. status' \in Status /\ serving' \in BOOLEAN /\ marked' \in BOOLEAN
    BY <1>11 DEF MarkInactive, Fail, PeerWrites, Status
  <2>. QED BY <1>4, <2>1, <2>2, <2>3
<1>. QED BY <1>5, <1>6, <1>7, <1>8, <1>9, <1>10, <1>11 DEF Server

\* All steps together.
LEMMA TypeNext == Typed /\ [Next]_vars => Typed'
<1>1. Typed /\ UNCHANGED vars => Typed'
  BY DEF Typed, GoodDue, TypeOK, vars, status_vars, dm_vars, server_vars
<1>. QED BY <1>1, TypeUser, TypeSlot, TypeServer DEF Next

\* Every variable keeps its type: the addressee selected is always one of those
\* offered, however often the list is filled again.
THEOREM TypeCorrect == Spec => []TypeOK
<1>1. Typed => TypeOK
  BY DEF Typed
<1>. QED BY <1>1, TypeInit, TypeNext, PTL DEF Spec

-----------------------------------------------------------------------------
(* The selector *)

\* What is in a queue stays in its place when more is added.
LEMMA ConcatKeeps ==
    ASSUME NEW S, NEW q \in Seq(S), NEW x \in Seq(S), NEW i \in DOMAIN q
    PROVE  i \in DOMAIN (q \o x) /\ (q \o x)[i] = q[i]
  OBVIOUS

\* A change that is on its way stays on its way, whatever is sent or answered
\* besides, until its confirmation is handled.
LEMMA PendingGrows ==
    ASSUME Typed, ChangePending,
           toServer' = toServer \/ \E r \in Request : toServer' = Append(toServer, r),
           toClient' = toClient \/ \E x \in Seq(Signal) : toClient' = toClient \o x,
           due' = due
    PROVE  ChangePending'
<1>1. ASSUME NEW i \in DOMAIN toServer, toServer[i].type = "CHANGE_STATUS"
      PROVE  i \in DOMAIN toServer' /\ toServer'[i].type = "CHANGE_STATUS"
  BY <1>1 DEF Typed, TypeOK
<1>2. ASSUME NEW i \in DOMAIN toClient, toClient[i].msg = "OK_STATUS_CHANGED"
      PROVE  i \in DOMAIN toClient' /\ toClient'[i].msg = "OK_STATUS_CHANGED"
  <2>1. ASSUME NEW x \in Seq(Signal), toClient' = toClient \o x
        PROVE  i \in DOMAIN toClient' /\ toClient'[i] = toClient[i]
    BY <2>1, ConcatKeeps DEF Typed, TypeOK
  <2>. QED BY <1>2, <2>1
<1>. QED BY <1>1, <1>2 DEF ChangePending

\* Nor does it go when a frame that is something else is taken from the front.
LEMMA TailKeepsOthers ==
    ASSUME NEW S, NEW q \in Seq(S), q # <<>>, NEW i \in DOMAIN q, q[i] # Head(q)
    PROVE  i - 1 \in DOMAIN Tail(q) /\ Tail(q)[i - 1] = q[i]
  OBVIOUS

\* A change stays pending until its confirmation is handled.
LEMMA PendingHandled ==
    ASSUME Typed, ChangePending, NEW msg, msg # "OK_STATUS_CHANGED", Handle(msg),
           toServer' = toServer, due' = due
    PROVE  ChangePending'
<1>1. ASSUME NEW i \in DOMAIN toClient, toClient[i].msg = "OK_STATUS_CHANGED"
      PROVE  i - 1 \in DOMAIN toClient' /\ toClient'[i - 1].msg = "OK_STATUS_CHANGED"
  <2>1. toClient[i] # Head(toClient)
    BY <1>1 DEF Handle
  <2>. QED BY <1>1, <2>1, TailKeepsOthers DEF Handle, Typed, TypeOK
<1>. QED BY <1>1 DEF ChangePending

\* A change that is served is pending as its confirmation.
LEMMA PendingServed ==
    ASSUME Typed, ChangePending, NEW type, type # "CHANGE_STATUS", Serve(type),
           toClient' = toClient \/ \E x \in Seq(Signal) : toClient' = toClient \o x
    PROVE  ChangePending'
<1>1. ASSUME NEW i \in DOMAIN toServer, toServer[i].type = "CHANGE_STATUS"
      PROVE  i - 1 \in DOMAIN toServer' /\ toServer'[i - 1].type = "CHANGE_STATUS"
  <2>1. toServer[i] # Head(toServer)
    BY <1>1 DEF Serve
  <2>. QED BY <1>1, <2>1, TailKeepsOthers DEF Serve, Typed, TypeOK
<1>2. ASSUME NEW i \in DOMAIN toClient, toClient[i].msg = "OK_STATUS_CHANGED"
      PROVE  i \in DOMAIN toClient' /\ toClient'[i].msg = "OK_STATUS_CHANGED"
  <2>1. ASSUME NEW x \in Seq(Signal), toClient' = toClient \o x
        PROVE  i \in DOMAIN toClient' /\ toClient'[i] = toClient[i]
    BY <2>1, ConcatKeeps DEF Typed, TypeOK
  <2>. QED BY <1>2, <2>1
<1>3. DOMAIN due = {}
  BY DEF Serve
<1>. QED BY <1>1, <1>2, <1>3 DEF ChangePending

\* A confirmation that is sent is on its way still.
LEMMA PendingSent ==
    ASSUME Typed, ChangePending, HandlerSends, open
    PROVE  ChangePending'
<1>1. /\ due # <<>> /\ due \in Seq(Signal) /\ toClient \in Seq(Signal) /\ toServer' = toServer
      /\ due' = Tail(due) /\ toClient' = Append(toClient, [msg |-> Head(due).msg, who |-> Head(due).who])
  BY DEF HandlerSends, Put, Typed, TypeOK
<1>2. CASE \E i \in DOMAIN toServer : toServer[i].type = "CHANGE_STATUS"
  BY <1>1, <1>2 DEF ChangePending
<1>3. ASSUME NEW i \in DOMAIN toClient, toClient[i].msg = "OK_STATUS_CHANGED"
      PROVE  ChangePending'
  <2>1. i \in DOMAIN toClient' /\ toClient'[i] = toClient[i]
    BY <1>1
  <2>. QED BY <1>3, <2>1 DEF ChangePending
<1>4. ASSUME NEW i \in DOMAIN due, due[i].msg = "OK_STATUS_CHANGED"
      PROVE  ChangePending'
  <2>1. CASE i = 1
    <3>1. /\ Len(toClient) + 1 \in DOMAIN toClient'
          /\ toClient'[Len(toClient) + 1].msg = "OK_STATUS_CHANGED"
      BY <1>1, <1>4, <2>1
    <3>. QED BY <3>1 DEF ChangePending
  <2>2. CASE i # 1
    <3>1. i - 1 \in DOMAIN due' /\ due'[i - 1] = due[i]
      BY <1>1, <2>2
    <3>. QED BY <1>4, <3>1 DEF ChangePending
  <2>. QED BY <2>1, <2>2
<1>. QED BY <1>2, <1>3, <1>4 DEF ChangePending

\* A signal that is put is appended.
LEMMA PutAppends ==
    ASSUME Typed, NEW msg \in {"OK_STATUS_CHANGED", "AUTO_INACTIVE", "OTHER_RESPONSE", "ALL_USERS",
                               "FOR_DM", "GET_USER_INFO_RESPONSE", "connectionLost"},
           NEW who \in SUBSET Peer, Put(msg, who)
    PROVE  /\ toClient' = toClient \/ \E x \in Seq(Signal) : toClient' = toClient \o x
           /\ open => toClient' = Append(toClient, [msg |-> msg, who |-> who])
<1>1. <<[msg |-> msg, who |-> who]>> \in Seq(Signal)
  BY DEF Signal
<1>2. Append(toClient, [msg |-> msg, who |-> who]) = toClient \o <<[msg |-> msg, who |-> who]>>
  BY DEF Typed, TypeOK
<1>. QED BY <1>1, <1>2 DEF Put

\* The user's choices are sent, ...
LEMMA ChoiceUser == Typed /\ ChoiceAgrees /\ User => ChoiceAgrees'
<1>. SUFFICES ASSUME Typed, ChoiceAgrees, User, open', serving', ~ChangePending'
              PROVE  statusCombo' = current_status'
  BY DEF ChoiceAgrees
<1>1. open /\ serving /\ toClient' = toClient /\ due' = due
  BY DEF User, Act, OnChangeStatus, SendGeneral, SendDm, Query, OnModeChanged, SelectTarget,
     OnUserDoubleClicked, CloseTab, CloseEvent, server_vars
<1>2. ASSUME NEW s \in Status, OnChangeStatus(s) PROVE statusCombo' = current_status'
  <2>1. CASE s = current_status
    BY <1>2, <2>1 DEF OnChangeStatus
  <2>2. CASE s # current_status
    <3>1. toServer' = Append(toServer, [type |-> "CHANGE_STATUS", status |-> s, user |-> NoPeer])
      BY <1>1, <1>2, <2>2 DEF OnChangeStatus, Sent
    <3>2. /\ Len(toServer) + 1 \in DOMAIN toServer'
          /\ toServer'[Len(toServer) + 1].type = "CHANGE_STATUS"
      BY <3>1 DEF Typed, TypeOK
    <3>. QED BY <3>2 DEF ChangePending
  <2>. QED BY <2>1, <2>2
<1>3. CASE UNCHANGED status_vars /\ (toServer' = toServer \/ \E r \in Request : toServer' = Append(toServer, r))
  <2>1. ~ChangePending
    BY <1>1, <1>3, PendingGrows
  <2>. QED BY <1>1, <1>3, <2>1 DEF ChoiceAgrees, status_vars
<1>4. CASE SendGeneral \/ SendDm \/ \E type \in {"LIST_USERS", "GET_USER_INFO"} : Query(type)
  <2>1. \A type \in {"MESSAGE_GENERAL", "MESSAGE_DM", "LIST_USERS", "GET_USER_INFO"},
           user \in Peer \cup {NoPeer} :
              [type |-> type, status |-> "NONE", user |-> user] \in Request
    BY DEF Request
  <2>2. dmTarget \in Peer \cup {NoPeer}
    BY DEF Typed, TypeOK
  <2>. QED BY <1>3, <1>4, <2>1, <2>2 DEF SendGeneral, SendDm, Query, Sent
<1>5. CASE \/ \E m \in {"General", "DM"} : OnModeChanged(m)
           \/ \E p \in Peer : SelectTarget(p) \/ OnUserDoubleClicked(p) \/ CloseTab(p)
  BY <1>3, <1>5 DEF OnModeChanged, SelectTarget, OnUserDoubleClicked, CloseTab
<1>6. CASE CloseEvent
  BY <1>6 DEF CloseEvent
<1>. QED BY <1>2, <1>4, <1>5, <1>6 DEF User

\* ... confirmations and notices set both, ...
LEMMA ChoiceSlot == Typed /\ ChoiceAgrees /\ Slot => ChoiceAgrees'
<1>. SUFFICES ASSUME Typed, ChoiceAgrees, Slot, open', serving', ~ChangePending'
              PROVE  statusCombo' = current_status'
  BY DEF ChoiceAgrees
<1>0. CASE OnStatusChanged
  BY <1>0 DEF OnStatusChanged, Confirmed
<1>1. CASE OnStatusRestored \/ OnAutoInactive
  <2>1. ASSUME NEW s, Assigned(s) PROVE statusCombo' = current_status'
    BY <2>1 DEF Assigned, Shown
  <2>. QED BY <1>1, <2>1 DEF OnStatusRestored, OnAutoInactive
<1>2. ASSUME NEW msg, msg # "OK_STATUS_CHANGED", Handle(msg),
             UNCHANGED <<status_vars, open, toServer, server_vars>>
      PROVE  statusCombo' = current_status'
  <2>1. ~ChangePending
    BY <1>2, PendingHandled DEF server_vars
  <2>. QED BY <1>2, <2>1 DEF ChoiceAgrees, status_vars, server_vars
<1>3. CASE OnAllUsers \/ OnForDm \/ OnText \/ OnConnectionLost
  BY <1>2, <1>3 DEF OnAllUsers, OnForDm, OnText, OnConnectionLost
<1>. QED BY <1>0, <1>1, <1>3 DEF Slot

\* ... and the server touches neither.
LEMMA ChoiceServer == Typed /\ ChoiceAgrees /\ Server => ChoiceAgrees'
<1>. SUFFICES ASSUME Typed, ChoiceAgrees, Server, open', serving', ~ChangePending'
              PROVE  statusCombo' = current_status'
  BY DEF ChoiceAgrees
<1>1. open /\ serving /\ UNCHANGED <<statusCombo, current_status>>
  BY DEF Server, Serve, Push, ServeChangeStatus, ServeMessage, ServeQuery, ServeQuit,
     HandlerSends, MarkInactive, NotifyInactive, Fail, PeerWrites, status_vars
<1>2. CASE ServeChangeStatus
  <2>1. 1 \in DOMAIN due' /\ due'[1].msg = "OK_STATUS_CHANGED"
    BY <1>2 DEF ServeChangeStatus, Notice
  <2>. QED BY <2>1 DEF ChangePending
<1>3. CASE ~ChangePending
  BY <1>1, <1>3 DEF ChoiceAgrees
<1>4. ASSUME ChangePending, ServeMessage \/ ServeQuery \/ ServeQuit PROVE FALSE
  <2>1. PICK type : type # "CHANGE_STATUS" /\ Serve(type)
    BY <1>4 DEF ServeMessage, ServeQuery, ServeQuit
  <2>2. toClient' = toClient \/ \E x \in Seq(Signal) : toClient' = toClient \o x
    BY <1>4, PutAppends DEF ServeMessage, ServeQuery, ServeQuit
  <2>. QED BY <1>4, <2>1, <2>2, PendingServed
<1>5. ASSUME ChangePending, MarkInactive \/ NotifyInactive \/ Fail \/ \E p \in Peer : PeerWrites(p)
      PROVE  FALSE
  <2>1. toServer' = toServer /\ due' = due
    BY <1>5 DEF MarkInactive, NotifyInactive, Fail, PeerWrites, Push
  <2>2. toClient' = toClient \/ \E x \in Seq(Signal) : toClient' = toClient \o x
    BY <1>5, PutAppends DEF MarkInactive, NotifyInactive, Fail, PeerWrites
  <2>. QED BY <1>5, <2>1, <2>2, PendingGrows
<1>6. ASSUME ChangePending, HandlerSends PROVE FALSE
  BY <1>1, <1>6, PendingSent
<1>. QED BY <1>2, <1>3, <1>4, <1>5, <1>6 DEF Server

\* All steps together.
LEMMA ChoiceNext == Typed /\ ChoiceAgrees /\ [Next]_vars => ChoiceAgrees'
<1>1. Typed /\ ChoiceAgrees /\ UNCHANGED vars => ChoiceAgrees'
  BY DEF ChoiceAgrees, ChangePending, vars, status_vars, server_vars
<1>. QED BY <1>1, ChoiceUser, ChoiceSlot, ChoiceServer DEF Next

\* The selector is never left on a status that will be neither confirmed nor
\* withdrawn (mainwindow.cpp:406-414, 480-521).
THEOREM ChoiceAlwaysAgrees == Spec => []ChoiceAgrees
<1>1. Init => ChoiceAgrees
  BY DEF Init, ChoiceAgrees
<1>. QED BY <1>1, TypeInit, TypeNext, ChoiceNext, PTL DEF Spec

-----------------------------------------------------------------------------
(* The status the server keeps *)

\* The status that the server keeps is the last one that the queue q tells of, or
\* the one that the window has if it tells of none.
Reflects(q, combo, current, kept) ==
    /\ (\A i \in DOMAIN q : q[i].msg \notin Telling) => current = kept
    /\ \A i \in DOMAIN q :
          q[i].msg \in Telling /\ (\A j \in DOMAIN q : j > i => q[j].msg \notin Telling)
             => kept = Meant(q[i].msg, combo)

\* A status that is asked for is the one that the selector shows.
Asked(q, combo) == \A i \in DOMAIN q : q[i].type = "CHANGE_STATUS" => q[i].status = combo

\* The handler has word of a status to send.
Owed == due # <<>> /\ Head(due).msg \in Telling

\* At most one of the server's threads has word of a status to send, and that
\* status is the one that the server keeps; if none has, it is the window's to
\* find in its queue.
Kept ==
    /\ Asked(toServer, statusCombo)
    /\ marked => status = "INVISIBLE" /\ ~Owed
    /\ Owed => status = Meant(Head(due).msg, statusCombo)
    /\ ~marked /\ ~Owed => Reflects(toClient, statusCombo, current_status, status)

InStep == open /\ serving /\ ~crossed => Kept

\* Asking for something else, and being asked, change nothing.
LEMMA AskedAppend ==
    ASSUME NEW q \in Seq(Request), NEW combo, Asked(q, combo),
           NEW r \in Request, r.type = "CHANGE_STATUS" => r.status = combo
    PROVE  Asked(Append(q, r), combo)
  BY DEF Asked

\* A request that has been read is forgotten.
LEMMA AskedTail ==
    ASSUME NEW q \in Seq(Request), q # <<>>, NEW combo, Asked(q, combo)
    PROVE  Asked(Tail(q), combo)
  BY DEF Asked

\* A signal that tells of no status may join the queue, ...
LEMMA ReflectsOther ==
    ASSUME NEW q \in Seq(Signal), NEW combo, NEW current, NEW kept,
           Reflects(q, combo, current, kept), NEW x \in Signal, x.msg \notin Telling
    PROVE  Reflects(Append(q, x), combo, current, kept)
<1>1. /\ Append(q, x) \in Seq(Signal) /\ Len(Append(q, x)) = Len(q) + 1
      /\ \A i \in 1..Len(q) : Append(q, x)[i] = q[i]
      /\ Append(q, x)[Len(q) + 1] = x
  OBVIOUS
<1>. QED BY <1>1 DEF Reflects

\* ... and one that does so has the last word.
LEMMA ReflectsWord ==
    ASSUME NEW q \in Seq(Signal), NEW combo, NEW current, NEW x \in Signal, x.msg \in Telling
    PROVE  Reflects(Append(q, x), combo, current, Meant(x.msg, combo))
<1>1. /\ Append(q, x) \in Seq(Signal) /\ Len(Append(q, x)) = Len(q) + 1
      /\ \A i \in 1..Len(q) : Append(q, x)[i] = q[i]
      /\ Append(q, x)[Len(q) + 1] = x
  OBVIOUS
<1>. QED BY <1>1 DEF Reflects

\* Handling a signal that tells of no status leaves the last word where it is.
LEMMA ReflectsHandled ==
    ASSUME NEW q \in Seq(Signal), q # <<>>, NEW combo, NEW current, NEW kept,
           Reflects(q, combo, current, kept), Head(q).msg \notin Telling
    PROVE  Reflects(Tail(q), combo, current, kept)
<1>1. /\ Tail(q) \in Seq(Signal) /\ Len(Tail(q)) = Len(q) - 1 /\ Head(q) = q[1]
      /\ \A i \in 1..Len(Tail(q)) : Tail(q)[i] = q[i + 1]
  OBVIOUS
<1>2. CASE \A i \in DOMAIN Tail(q) : Tail(q)[i].msg \notin Telling
  <2>1. ASSUME NEW i \in DOMAIN q PROVE q[i].msg \notin Telling
    <3>1. CASE i = 1
      BY <1>1, <3>1
    <3>2. CASE i # 1
      <4>1. i - 1 \in DOMAIN Tail(q) /\ q[i] = Tail(q)[i - 1]
        BY <1>1, <3>2
      <4>. QED BY <1>2, <4>1
    <3>. QED BY <3>1, <3>2
  <2>. QED BY <1>2, <2>1 DEF Reflects
<1>3. ASSUME NEW i \in DOMAIN Tail(q), Tail(q)[i].msg \in Telling,
             \A j \in DOMAIN Tail(q) : j > i => Tail(q)[j].msg \notin Telling
      PROVE  kept = Meant(Tail(q)[i].msg, combo)
  <2>1. i + 1 \in DOMAIN q /\ q[i + 1] = Tail(q)[i]
    BY <1>1
  <2>2. ASSUME NEW j \in DOMAIN q, j > i + 1 PROVE q[j].msg \notin Telling
    <3>1. j - 1 \in DOMAIN Tail(q) /\ j - 1 > i /\ q[j] = Tail(q)[j - 1]
      BY <1>1, <2>2
    <3>. QED BY <1>3, <3>1
  <2>. QED BY <1>3, <2>1, <2>2 DEF Reflects
<1>. QED BY <1>2, <1>3 DEF Reflects

\* Once it has handled a signal that tells of a status, the window has that
\* status; the selector may move to it if no confirmation is left.
LEMMA ReflectsTold ==
    ASSUME NEW q \in Seq(Signal), q # <<>>, NEW combo, NEW current, NEW kept,
           Reflects(q, combo, current, kept), Head(q).msg \in Telling,
           NEW shown,
           shown # combo => \A i \in DOMAIN q : q[i].msg # "OK_STATUS_CHANGED"
    PROVE  Reflects(Tail(q), shown, Meant(Head(q).msg, combo), kept)
<1>1. /\ Tail(q) \in Seq(Signal) /\ Len(Tail(q)) = Len(q) - 1 /\ Head(q) = q[1]
      /\ \A i \in 1..Len(Tail(q)) : Tail(q)[i] = q[i + 1]
  OBVIOUS
<1>2. CASE \A i \in DOMAIN Tail(q) : Tail(q)[i].msg \notin Telling
  <2>1. ASSUME NEW j \in DOMAIN q, j > 1 PROVE q[j].msg \notin Telling
    <3>1. j - 1 \in DOMAIN Tail(q) /\ q[j] = Tail(q)[j - 1]
      BY <1>1, <2>1
    <3>. QED BY <1>2, <3>1
  <2>2. kept = Meant(q[1].msg, combo)
    BY <1>1, <2>1 DEF Reflects
  <2>. QED BY <1>1, <1>2, <2>2 DEF Reflects
<1>3. ASSUME NEW i \in DOMAIN Tail(q), Tail(q)[i].msg \in Telling,
             \A j \in DOMAIN Tail(q) : j > i => Tail(q)[j].msg \notin Telling
      PROVE  kept = Meant(Tail(q)[i].msg, shown)
  <2>1. i + 1 \in DOMAIN q /\ q[i + 1] = Tail(q)[i]
    BY <1>1
  <2>2. ASSUME NEW j \in DOMAIN q, j > i + 1 PROVE q[j].msg \notin Telling
    <3>1. j - 1 \in DOMAIN Tail(q) /\ j - 1 > i /\ q[j] = Tail(q)[j - 1]
      BY <1>1, <2>2
    <3>. QED BY <1>3, <3>1
  <2>3. kept = Meant(q[i + 1].msg, combo)
    BY <1>3, <2>1, <2>2 DEF Reflects
  <2>. QED BY <1>3, <2>1, <2>3 DEF Meant, Telling
<1>4. CASE \E i \in DOMAIN Tail(q) : Tail(q)[i].msg \in Telling
  BY <1>3, <1>4 DEF Reflects
<1>. QED BY <1>2, <1>3, <1>4 DEF Reflects

\* The selector may be moved while no confirmation is on its way.
LEMMA ReflectsMoved ==
    ASSUME NEW q \in Seq(Signal), NEW combo, NEW current, NEW kept,
           Reflects(q, combo, current, kept),
           \A i \in DOMAIN q : q[i].msg # "OK_STATUS_CHANGED",
           NEW shown
    PROVE  Reflects(q, shown, current, kept)
  BY DEF Reflects, Meant, Telling

\* Nor does the selector matter to what a handler has still to say.
LEMMA OwedMoved ==
    ASSUME due \in Seq(Signal), ~ChangePending, Owed, NEW combo, NEW shown
    PROVE  Meant(Head(due).msg, combo) = Meant(Head(due).msg, shown)
<1>1. 1 \in DOMAIN due /\ Head(due) = due[1]
  BY DEF Owed
<1>2. Head(due).msg # "OK_STATUS_CHANGED"
  BY <1>1 DEF ChangePending
<1>. QED BY <1>2 DEF Owed, Meant, Telling

\* The user's choice is asked for and is the only one that is, ...
LEMMA InStepUser == Typed /\ InStep /\ User => InStep'
<1>. SUFFICES ASSUME Typed, InStep, User, open', serving', ~crossed'
              PROVE  Kept'
  BY DEF InStep
<1>1. open /\ serving /\ ~crossed /\ UNCHANGED <<toClient, due, marked, status, current_status>>
  <2>1. ASSUME NEW s \in Status, OnChangeStatus(s)
        PROVE  open /\ serving /\ ~crossed /\ UNCHANGED <<toClient, due, marked, status, current_status>>
    BY <2>1 DEF OnChangeStatus, Act, server_vars
  <2>2. ASSUME UNCHANGED <<status_vars, open, toClient, server_vars>>
        PROVE  open /\ serving /\ ~crossed /\ UNCHANGED <<toClient, due, marked, status, current_status>>
    BY <2>2 DEF status_vars, server_vars
  <2>3. CASE SendGeneral
    BY <2>2, <2>3 DEF SendGeneral
  <2>4. CASE SendDm
    BY <2>2, <2>4 DEF SendDm
  <2>5. CASE \E type \in {"LIST_USERS", "GET_USER_INFO"} : Query(type)
    BY <2>2, <2>5 DEF Query
  <2>6. CASE \/ \E m \in {"General", "DM"} : OnModeChanged(m)
             \/ \E p \in Peer : SelectTarget(p) \/ OnUserDoubleClicked(p) \/ CloseTab(p)
    BY <2>2, <2>6 DEF OnModeChanged, SelectTarget, OnUserDoubleClicked, CloseTab
  <2>7. CASE CloseEvent
    BY <2>7 DEF CloseEvent
  <2>. QED BY <2>1, <2>3, <2>4, <2>5, <2>6, <2>7 DEF User
<1>2. /\ toServer \in Seq(Request) /\ toClient \in Seq(Signal) /\ due \in Seq(Signal)
      /\ Kept /\ Asked(toServer, statusCombo)
  BY <1>1 DEF InStep, Kept, Typed, TypeOK
<1>3. ASSUME NEW s \in Status, OnChangeStatus(s)
      PROVE  Kept'
  <2>1. ~ChangePending /\ statusCombo' = s
    BY <1>3 DEF OnChangeStatus
  <2>2. Asked(toServer, s)
    BY <2>1 DEF ChangePending, Asked
  <2>3. [type |-> "CHANGE_STATUS", status |-> s, user |-> NoPeer] \in Request
    BY DEF Request
  <2>4. Asked(Append(toServer, [type |-> "CHANGE_STATUS", status |-> s, user |-> NoPeer]), s)
    BY <1>2, <2>2, <2>3, AskedAppend
  <2>5. ~marked /\ ~Owed => Reflects(toClient, s, current_status, status)
    BY <1>2, <2>1, ReflectsMoved DEF ChangePending, Kept
  <2>6. Owed => status = Meant(Head(due).msg, s)
    BY <1>2, <2>1, OwedMoved DEF Kept
  <2>7. Asked(toServer', statusCombo') /\ statusCombo' = s /\ Owed' = Owed
    BY <1>1, <1>3, <2>1, <2>2, <2>4 DEF OnChangeStatus, Sent, Owed
  <2>. QED BY <1>1, <1>2, <2>5, <2>6, <2>7 DEF Kept
<1>4. ASSUME NEW r \in Request, r.type # "CHANGE_STATUS", toServer' \in {toServer, Sent(r)},
             UNCHANGED status_vars
      PROVE  Kept'
  <2>1. Asked(Append(toServer, r), statusCombo)
    BY <1>2, <1>4, AskedAppend
  <2>2. Asked(toServer', statusCombo') /\ statusCombo' = statusCombo /\ Owed' = Owed
    BY <1>1, <1>2, <1>4, <2>1 DEF Sent, status_vars, Owed
  <2>. QED BY <1>1, <1>2, <2>2 DEF Kept
<1>5. CASE SendGeneral \/ SendDm \/ \E type \in {"LIST_USERS", "GET_USER_INFO"} : Query(type)
  <2>1. \A type \in {"MESSAGE_GENERAL", "MESSAGE_DM", "LIST_USERS", "GET_USER_INFO"},
           user \in Peer \cup {NoPeer} :
              [type |-> type, status |-> "NONE", user |-> user] \in Request
    BY DEF Request
  <2>2. dmTarget \in Peer \cup {NoPeer}
    BY DEF Typed, TypeOK
  <2>. QED BY <1>4, <1>5, <2>1, <2>2 DEF SendGeneral, SendDm, Query
<1>6. CASE \/ \E m \in {"General", "DM"} : OnModeChanged(m)
           \/ \E p \in Peer : SelectTarget(p) \/ OnUserDoubleClicked(p) \/ CloseTab(p)
  <2>1. UNCHANGED <<status_vars, toServer>>
    BY <1>6 DEF OnModeChanged, SelectTarget, OnUserDoubleClicked, CloseTab
  <2>. QED BY <1>1, <1>2, <2>1 DEF status_vars, Kept, Owed
<1>7. CASE CloseEvent
  BY <1>7 DEF CloseEvent
<1>. QED BY <1>3, <1>5, <1>6, <1>7 DEF User

\* ... the window takes each status that it is told of, ...
LEMMA InStepSlot == Typed /\ InStep /\ Slot => InStep'
<1>. SUFFICES ASSUME Typed, InStep, Slot, open', serving', ~crossed'
              PROVE  Kept'
  BY DEF InStep
<1>1. /\ open /\ serving /\ ~crossed /\ UNCHANGED <<status, due, marked>>
      /\ toClient # <<>> /\ toClient' = Tail(toClient)
  <2>1. toClient # <<>> /\ toClient' = Tail(toClient)
    BY DEF Slot, OnStatusChanged, OnStatusRestored, OnAutoInactive, OnAllUsers, OnForDm, OnText,
       OnConnectionLost, Handle
  <2>2. /\ open' = open /\ serving' = serving /\ UNCHANGED <<status, due, marked>>
        /\ crossed' = crossed \/ crossed' = (crossed \/ ChangePending)
    BY DEF Slot, OnStatusChanged, OnStatusRestored, OnAutoInactive, OnAllUsers, OnForDm, OnText,
       OnConnectionLost, Assigned, status_vars, server_vars
  <2>3. ~crossed
    BY <2>2 DEF Typed, TypeOK
  <2>. QED BY <2>1, <2>2, <2>3
<1>2. /\ toServer \in Seq(Request) /\ toClient \in Seq(Signal) /\ due \in Seq(Signal)
      /\ Kept /\ Asked(toServer, statusCombo) /\ Owed' = Owed
  BY <1>1 DEF InStep, Kept, Owed, Typed, TypeOK
<1>3. ListUsers \in Request /\ ListUsers.type # "CHANGE_STATUS"
  BY DEF ListUsers, Request
<1>4. Asked(toServer, statusCombo) /\ Asked(Sent(ListUsers), statusCombo)
  BY <1>2, <1>3, AskedAppend DEF Sent
<1>5. CASE OnStatusChanged
  <2>1. Head(toClient).msg = "OK_STATUS_CHANGED"
    BY <1>5 DEF OnStatusChanged, Handle
  <2>2. ~marked /\ ~Owed =>
            Reflects(Tail(toClient), statusCombo, Meant(Head(toClient).msg, statusCombo), status)
    BY <1>1, <1>2, <2>1, ReflectsTold DEF Telling, Kept
  <2>3. Meant(Head(toClient).msg, statusCombo) = statusCombo
    BY <2>1 DEF Meant
  <2>. QED BY <1>1, <1>2, <1>4, <1>5, <2>2, <2>3 DEF OnStatusChanged, Confirmed, Kept
<1>6. ASSUME NEW s, Assigned(s), Head(toClient).msg \in Telling,
             s = Meant(Head(toClient).msg, statusCombo), toServer' \in {toServer, Sent(ListUsers)}
      PROVE  Kept'
  <2>1. ~ChangePending /\ statusCombo' = s /\ current_status' = s
    BY <1>6 DEF Assigned, Shown
  <2>2. Asked(toServer, s)
    BY <2>1 DEF ChangePending, Asked
  <2>3. Asked(Sent(ListUsers), s)
    BY <1>2, <1>3, <2>2, AskedAppend DEF Sent
  <2>4. ~marked /\ ~Owed =>
            Reflects(Tail(toClient), s, Meant(Head(toClient).msg, statusCombo), status)
    BY <1>1, <1>2, <1>6, <2>1, ReflectsTold DEF ChangePending, Kept
  <2>5. Owed => status = Meant(Head(due).msg, s)
    BY <1>2, <2>1, OwedMoved DEF Kept
  <2>. QED BY <1>1, <1>2, <1>6, <2>1, <2>2, <2>3, <2>4, <2>5 DEF Kept
<1>7. CASE OnStatusRestored
  BY <1>6, <1>7 DEF OnStatusRestored, Handle, Telling, Meant
<1>8. CASE OnAutoInactive
  BY <1>6, <1>8 DEF OnAutoInactive, Handle, Telling, Meant
<1>9. CASE OnAllUsers \/ OnForDm \/ OnText \/ OnConnectionLost
  <2>1. Head(toClient).msg \notin Telling /\ UNCHANGED <<status_vars, toServer>>
    BY <1>9 DEF OnAllUsers, OnForDm, OnText, OnConnectionLost, Handle, Telling
  <2>2. ~marked /\ ~Owed => Reflects(Tail(toClient), statusCombo, current_status, status)
    BY <1>1, <1>2, <2>1, ReflectsHandled DEF Kept
  <2>. QED BY <1>1, <1>2, <2>1, <2>2 DEF status_vars, Kept
<1>. QED BY <1>5, <1>7, <1>8, <1>9 DEF Slot

\* ... and the server tells of each that it assigns.
LEMMA InStepServer == Typed /\ InStep /\ Server => InStep'
<1>. SUFFICES ASSUME Typed, InStep, Server, open', serving', ~crossed'
              PROVE  Kept'
  BY DEF InStep
<1>1. /\ open /\ serving /\ ~crossed
      /\ statusCombo' = statusCombo /\ current_status' = current_status
  BY DEF Server, Serve, Push, ServeChangeStatus, ServeMessage, ServeQuery, ServeQuit,
     HandlerSends, MarkInactive, NotifyInactive, Fail, PeerWrites, status_vars, Typed, TypeOK
<1>2. /\ toServer \in Seq(Request) /\ toClient \in Seq(Signal) /\ due \in Seq(Signal)
      /\ Kept /\ Asked(toServer, statusCombo)
  BY <1>1 DEF InStep, Kept, Typed, TypeOK
<1>3. Asked(toServer', statusCombo')
  <2>1. toServer' = toServer \/ (toServer # <<>> /\ toServer' = Tail(toServer))
    BY DEF Server, Serve, Push, ServeChangeStatus, ServeMessage, ServeQuery, ServeQuit,
       HandlerSends, MarkInactive, NotifyInactive, Fail, PeerWrites
  <2>. QED BY <1>1, <1>2, <2>1, AskedTail
<1>4. CASE ServeChangeStatus
  <2>1. /\ toServer # <<>> /\ Head(toServer).type = "CHANGE_STATUS" /\ ~marked /\ ~marked'
        /\ due' # <<>> /\ Head(due').msg = "OK_STATUS_CHANGED"
    BY <1>1, <1>4 DEF ServeChangeStatus, Serve, Notice, Typed, TypeOK
  <2>2. Head(toServer).status = statusCombo
    BY <1>2, <2>1 DEF Asked
  <2>3. Owed' /\ status' = Meant("OK_STATUS_CHANGED", statusCombo)
    BY <1>4, <2>1, <2>2 DEF ServeChangeStatus, Owed, Meant, Telling
  <2>. QED BY <1>1, <1>3, <2>1, <2>3 DEF Kept
<1>5. CASE ServeMessage
  <2>1. PICK answer \in {"BROADCAST_DELIVERY", "OTHER_RESPONSE"} :
           due' = IF Restores THEN <<Notice("STATUS_RESTORED"), Notice(answer)>>
                            ELSE <<Notice(answer)>>
    BY <1>5 DEF ServeMessage
  <2>2. ~Owed /\ marked' = marked /\ toClient' = toClient
    BY <1>5 DEF ServeMessage, Serve, Owed
  <2>5. Notice(answer) \in Signal /\ Notice("STATUS_RESTORED") \in Signal
    BY DEF Notice, Signal
  <2>3. CASE Restores
    <3>1. due' = <<Notice("STATUS_RESTORED"), Notice(answer)>>
      BY <2>1, <2>3, <2>5
    <3>2. Owed' /\ Head(due').msg = "STATUS_RESTORED"
      BY <3>1 DEF Notice, Owed, Telling
    <3>3. ~marked /\ status' = "ACTIVE"
      BY <1>1, <1>5, <2>3 DEF ServeMessage, Typed, TypeOK
    <3>. QED BY <1>1, <1>3, <2>2, <3>2, <3>3 DEF Kept, Meant
  <2>4. CASE ~Restores
    <3>1. due' = <<Notice(answer)>>
      BY <2>1, <2>4, <2>5
    <3>2. ~Owed' /\ status' = status
      BY <1>5, <2>4, <3>1 DEF ServeMessage, Notice, Owed, Telling
    <3>. QED BY <1>1, <1>2, <1>3, <2>2, <3>2 DEF Kept
  <2>. QED BY <2>3, <2>4
<1>6. CASE ServeQuery
  <2>1. ~Owed /\ ~Owed'
    <3>1. ~Owed
      BY <1>6 DEF ServeQuery, Serve, Owed
    <3>2. PICK x : due' = <<x>> /\ x.msg \notin Telling
      BY <1>6 DEF ServeQuery, Notice, Telling
    <3>. QED BY <3>1, <3>2 DEF Owed
  <2>. QED BY <1>1, <1>2, <1>3, <1>6, <2>1 DEF ServeQuery, Serve, Kept
<1>7. CASE HandlerSends
  <2>1. /\ Head(due) \in Signal /\ due # <<>> /\ due' = Tail(due) /\ UNCHANGED <<status, marked>>
        /\ toClient' = Append(toClient, [msg |-> Head(due).msg, who |-> Head(due).who])
    BY <1>1, <1>2, <1>7 DEF HandlerSends, Put
  <2>2. /\ [msg |-> Head(due).msg, who |-> Head(due).who] \in Signal
        /\ [msg |-> Head(due).msg, who |-> Head(due).who].msg = Head(due).msg
    BY <2>1 DEF Signal
  <2>3. ~Owed'
    <3>1. ASSUME Tail(due) # <<>> PROVE 2 \in DOMAIN due /\ Head(Tail(due)) = due[2]
      BY <1>2, <2>1, <3>1
    <3>. QED BY <2>1, <3>1 DEF Owed, Typed, GoodDue
  <2>4. CASE Owed
    <3>1. /\ ~marked /\ status = Meant(Head(due).msg, statusCombo) /\ Head(due).msg \in Telling
      BY <1>2, <2>4 DEF Kept, Owed
    <3>2. Reflects(toClient', statusCombo, current_status, Meant(Head(due).msg, statusCombo))
      BY <1>2, <2>1, <2>2, <3>1, ReflectsWord
    <3>. QED BY <1>1, <1>3, <2>1, <2>3, <3>1, <3>2 DEF Kept
  <2>5. CASE ~Owed
    <3>1. Head(due).msg \notin Telling
      BY <2>1, <2>5 DEF Owed
    <3>2. ~marked => Reflects(toClient', statusCombo, current_status, status)
      BY <1>2, <2>1, <2>2, <2>5, <3>1, ReflectsOther DEF Kept
    <3>. QED BY <1>1, <1>2, <1>3, <2>1, <2>3, <3>2 DEF Kept
  <2>. QED BY <2>4, <2>5
<1>8. CASE MarkInactive
  <2>1. /\ due' = due /\ marked' /\ status' = "INVISIBLE"
        /\ \A i \in DOMAIN due : due[i].msg \notin {"OK_STATUS_CHANGED", "STATUS_RESTORED"}
    BY <1>8 DEF MarkInactive, Push
  <2>2. ASSUME Owed PROVE FALSE
    <3>1. 1 \in DOMAIN due /\ Head(due) = due[1] /\ Head(due).msg = "AUTO_INACTIVE"
      BY <1>2, <2>1, <2>2 DEF Owed, Telling
    <3>. QED BY <3>1 DEF Typed, GoodDue
  <2>. QED BY <1>1, <1>3, <2>1, <2>2 DEF Kept, Owed
<1>9. CASE NotifyInactive
  <2>1. /\ marked /\ ~marked' /\ due' = due /\ status' = status
        /\ toClient' = Append(toClient, [msg |-> "AUTO_INACTIVE", who |-> {}])
    BY <1>1, <1>9, PutAppends DEF NotifyInactive
  <2>2. status = Meant("AUTO_INACTIVE", statusCombo) /\ ~Owed /\ ~Owed'
    BY <1>2, <2>1 DEF Kept, Meant, Owed
  <2>3. [msg |-> "AUTO_INACTIVE", who |-> {}] \in Signal
    BY DEF Signal
  <2>4. Reflects(toClient', statusCombo, current_status, Meant("AUTO_INACTIVE", statusCombo))
    BY <1>2, <2>1, <2>3, ReflectsWord DEF Telling
  <2>. QED BY <1>1, <1>3, <2>1, <2>2, <2>4 DEF Kept
<1>10. ASSUME NEW p \in Peer, PeerWrites(p) PROVE Kept'
  <2>1. /\ UNCHANGED <<due, marked, status>> /\ Owed' = Owed
        /\ toClient' = Append(toClient, [msg |-> "FOR_DM", who |-> {p}])
    BY <1>1, <1>10, PutAppends DEF PeerWrites, Push, Owed
  <2>2. [msg |-> "FOR_DM", who |-> {p}] \in Signal
    BY DEF Signal
  <2>3. ~marked /\ ~Owed => Reflects(toClient', statusCombo, current_status, status)
    BY <1>2, <2>1, <2>2, ReflectsOther DEF Kept, Telling
  <2>. QED BY <1>1, <1>2, <1>3, <2>1, <2>3 DEF Kept
<1>11. CASE ServeQuit \/ Fail
  BY <1>11 DEF ServeQuit, Fail
<1>. QED BY <1>4, <1>5, <1>6, <1>7, <1>8, <1>9, <1>10, <1>11 DEF Server

\* A user who awaits each answer, whose choices meet no change by the server and
\* whose handler and watchdog do not assign a status while the other has still to
\* send word of one (server.cpp:601-613 against 257-262 and 465-472), sees the
\* status that the server keeps once everything has been handled
\* (mainwindow.cpp:406-414, 480-521; server.cpp, handle_change_status and
\* maybe_restore_activity).
THEOREM StatusAlwaysReflected == Spec => []StatusReflected
<1>1. Init => ChoiceAgrees
  BY DEF Init, ChoiceAgrees
<1>2. Init => InStep
  BY DEF Init, InStep, Kept, Owed, Asked, Reflects
<1>3. Typed /\ InStep /\ [Next]_vars => InStep'
  <2>1. InStep /\ UNCHANGED vars => InStep'
    BY DEF InStep, Kept, Owed, vars, status_vars, server_vars
  <2>. QED BY <2>1, InStepUser, InStepSlot, InStepServer DEF Next
<1>4. InStep /\ ChoiceAgrees => StatusReflected
  <2>. SUFFICES ASSUME InStep, ChoiceAgrees, Quiet, ~crossed
                PROVE  current_status = status /\ statusCombo = status
    BY DEF StatusReflected
  <2>1. ~ChangePending
    BY DEF Quiet, ChangePending
  <2>2. statusCombo = current_status
    BY <2>1 DEF Quiet, ChoiceAgrees
  <2>3. current_status = status
    BY DEF Quiet, InStep, Kept, Owed, Reflects
  <2>. QED BY <2>2, <2>3
<1>. QED BY <1>1, <1>2, <1>3, <1>4, TypeInit, TypeNext, ChoiceNext, PTL DEF Spec

=============================================================================
