---------------------------- MODULE ClientWindow ----------------------------
(***************************************************************************)
(* The client (src/src/client): the window, whose slots run one at a time  *)
(* in the Qt event loop, the NetworkThread that turns frames into queued   *)
(* signals, and the NetworkSender.  A slot is one step.  toClient holds    *)
(* the frames on the socket and the signals in the event queue: both are   *)
(* first in, first out, and nothing else of them can be seen.              *)
(*                                                                         *)
(* The server is here what one user sees of it: a handler that serves one *)
(* request after the other, and the watchdog.  Each assigns a status in    *)
(* one step and sends word of it later, without a lock between the two.    *)
(***************************************************************************)
EXTENDS Naturals, Sequences

CONSTANTS
    Peer,        \* the names of other users
    NoPeer,      \* no name: an empty combo box selection
    MaxActs,     \* bound on what the user does that sends a frame
    MaxPushes    \* bound on what the server sends unasked

Status == {"ACTIVE", "DO_NOT_DISTURB", "INVISIBLE"}

\* What the window sends: the type, the status of a CHANGE_STATUS, the
\* addressee of a MESSAGE_DM.
Request ==
    [type   : {"MESSAGE_GENERAL", "MESSAGE_DM", "CHANGE_STATUS", "LIST_USERS",
               "GET_USER_INFO", "QUIT"},
     status : Status \cup {"NONE"},
     user   : Peer \cup {NoPeer}]

\* What the NetworkThread emits: a ServerResponse is written as its status
\* code, who is the sender of a DM or the users of a list but this one.
Signal ==
    [msg : {"OK_STATUS_CHANGED", "STATUS_RESTORED", "AUTO_INACTIVE", "OTHER_RESPONSE",
            "ALL_USERS", "FOR_DM", "BROADCAST_DELIVERY", "GET_USER_INFO_RESPONSE",
            "connectionLost"},
     who : SUBSET Peer]

ASSUME WindowConstantsOK == NoPeer \notin Peer /\ MaxActs \in Nat /\ MaxPushes \in Nat

VARIABLES
    statusCombo,      \* what the status selector shows
    current_status,   \* what the window believes its status to be
    mode, dmTarget,   \* the mode selector and the addressee selected
    offered,          \* the users listed, and offered as addressees
    chatTabs,         \* the peers whose tabs can be seen
    dmTabs,           \* the keys of the map from peers to their pages
    enabled, open,    \* the input widgets are enabled; the window is open
    toServer, toClient,
    status, manual_status, serving,   \* the server's side
    due,              \* the frames that its handler has still to send
    marked,           \* the watchdog has still to send a 602
    acts, pushes,     \* counters for the two bounds
    crossed           \* history: two changes of the status have crossed

status_vars == <<statusCombo, current_status, crossed>>
dm_vars     == <<mode, dmTarget, offered, chatTabs, dmTabs>>
server_vars == <<status, manual_status, serving, due, marked, pushes>>
vars == <<status_vars, dm_vars, enabled, open, toServer, toClient, server_vars, acts>>

\* The label of a DM tab: the name with an emblem before it.
TabText(p) == <<"dm", p>>

TypeOK ==
    /\ statusCombo \in Status /\ current_status \in Status
    /\ mode \in {"General", "DM"} /\ dmTarget \in offered \cup {NoPeer}
    /\ offered \subseteq Peer /\ chatTabs \cup dmTabs \subseteq Peer
    /\ enabled \in BOOLEAN /\ open \in BOOLEAN
    /\ toServer \in Seq(Request) /\ toClient \in Seq(Signal)
    /\ status \in Status /\ manual_status \in Status /\ serving \in BOOLEAN
    /\ due \in Seq(Signal) /\ marked \in BOOLEAN
    /\ acts \in 0..MaxActs /\ pushes \in 0..MaxPushes
    /\ crossed \in BOOLEAN

\* The window after a successful registration: nobody is listed yet.
Init ==
    /\ statusCombo = "ACTIVE" /\ current_status = "ACTIVE"
    /\ mode = "General" /\ dmTarget = NoPeer
    /\ offered = {} /\ chatTabs = {} /\ dmTabs = {}
    /\ enabled = TRUE /\ open = TRUE
    /\ toServer = <<>> /\ toClient = <<>>
    /\ status = "ACTIVE" /\ manual_status = "ACTIVE" /\ serving = TRUE
    /\ due = <<>> /\ marked = FALSE
    /\ acts = 0 /\ pushes = 0
    /\ crossed = FALSE

-----------------------------------------------------------------------------
\* Operators the actions share.

\* NetworkSender: a frame goes out whole and in order while the socket is open.
Sent(request) == IF open THEN Append(toServer, request) ELSE toServer

ListUsers == [type |-> "LIST_USERS", status |-> "NONE", user |-> NoPeer]

\* The NetworkThread reads until its thread is stopped.
Put(msg, who) ==
    toClient' = IF open THEN Append(toClient, [msg |-> msg, who |-> who]) ELSE toClient

\* What the user does that may send a frame.
Act ==
    /\ open /\ acts < MaxActs
    /\ acts' = acts + 1

\* A status change has been sent whose confirmation has not been handled.
ChangePending ==
    \/ \E i \in DOMAIN toServer : toServer[i].type = "CHANGE_STATUS"
    \/ \E i \in DOMAIN due : due[i].msg = "OK_STATUS_CHANGED"
    \/ \E i \in DOMAIN toClient : toClient[i].msg = "OK_STATUS_CHANGED"

\* getOrCreateDmTab shows a page only when it creates it.
OpenTab(p) ==
    /\ chatTabs' = IF p \in dmTabs THEN chatTabs ELSE chatTabs \cup {p}
    /\ dmTabs' = dmTabs \cup {p}

-----------------------------------------------------------------------------
\* The user.

\* The user picks another status: onChangeStatus.
OnChangeStatus(s) ==
    /\ Act /\ enabled /\ s # statusCombo
    /\ statusCombo' = s
    /\ toServer' = IF s = current_status
                   THEN toServer
                   ELSE Sent([type |-> "CHANGE_STATUS", status |-> s, user |-> NoPeer])
    /\ crossed' = (crossed \/ ChangePending)
    /\ UNCHANGED <<current_status, dm_vars, enabled, open, toClient, server_vars>>

\* onSendClicked in General mode.
SendGeneral ==
    /\ Act /\ enabled /\ mode = "General"
    /\ toServer' = Sent([type |-> "MESSAGE_GENERAL", status |-> "NONE", user |-> NoPeer])
    /\ UNCHANGED <<status_vars, dm_vars, enabled, open, toClient, server_vars>>

\* onSendClicked in DM mode.  Without an addressee the text is cleared and a
\* warning shown: that changes nothing here.
SendDm ==
    /\ Act /\ enabled /\ mode = "DM" /\ dmTarget # NoPeer
    /\ toServer' = Sent([type |-> "MESSAGE_DM", status |-> "NONE", user |-> dmTarget])
    /\ OpenTab(dmTarget)
    /\ UNCHANGED <<status_vars, mode, dmTarget, offered, enabled, open, toClient, server_vars>>

\* The refresh button, and the dialog for another user's data.
Query(type) ==
    /\ Act
    /\ toServer' = Sent([type |-> type, status |-> "NONE", user |-> NoPeer])
    /\ UNCHANGED <<status_vars, dm_vars, enabled, open, toClient, server_vars>>

\* The mode selector.
OnModeChanged(m) ==
    /\ open /\ m # mode
    /\ mode' = m
    /\ UNCHANGED <<status_vars, dmTarget, offered, chatTabs, dmTabs, enabled, open,
                   toServer, toClient, server_vars, acts>>

\* The addressee is picked among those offered.
SelectTarget(p) ==
    /\ open /\ mode = "DM" /\ p \in offered \ {dmTarget}
    /\ dmTarget' = p
    /\ UNCHANGED <<status_vars, mode, offered, chatTabs, dmTabs, enabled, open,
                   toServer, toClient, server_vars, acts>>

\* A user of the list is double clicked: DM mode, addressee and page at once.
OnUserDoubleClicked(p) ==
    /\ open /\ p \in offered
    /\ mode' = "DM" /\ dmTarget' = p
    /\ OpenTab(p)
    /\ UNCHANGED <<status_vars, offered, enabled, open, toServer, toClient, server_vars, acts>>

\* tabCloseRequested: the page leaves the window, and the tab's label is
\* removed from the map, whose keys are names.
CloseTab(p) ==
    /\ open /\ p \in chatTabs
    /\ chatTabs' = chatTabs \ {p}
    /\ dmTabs' = dmTabs \ {TabText(p)}
    /\ UNCHANGED <<status_vars, mode, dmTarget, offered, enabled, open,
                   toServer, toClient, server_vars, acts>>

\* closeEvent: QUIT is sent, the thread stopped and the socket closed.  Signals
\* already queued may still reach the window.
CloseEvent ==
    /\ open
    /\ toServer' = Sent([type |-> "QUIT", status |-> "NONE", user |-> NoPeer])
    /\ open' = FALSE
    /\ UNCHANGED <<status_vars, dm_vars, enabled, toClient, server_vars, acts>>

-----------------------------------------------------------------------------
\* The slots of the NetworkThread's signals.

Handle(msg) ==
    /\ toClient # <<>> /\ Head(toClient).msg = msg
    /\ toClient' = Tail(toClient)

Confirmed_Ignored == current_status

\* A 201 does not say which status it confirms; the selector is asked.
Confirmed == statusCombo

OnStatusChanged ==
    /\ Handle("OK_STATUS_CHANGED")
    /\ toServer' = Sent(ListUsers)
    /\ current_status' = Confirmed
    /\ UNCHANGED <<statusCombo, crossed, dm_vars, enabled, open, server_vars, acts>>

Shown_Current(s) == statusCombo

\* The selector follows with its signals blocked.
Shown(s) == s

\* A change the user did not ask for: 602 and 603.
Assigned(s) ==
    /\ current_status' = s
    /\ statusCombo' = Shown(s)
    /\ crossed' = (crossed \/ ChangePending)
    /\ UNCHANGED <<dm_vars, enabled, open, server_vars, acts>>

OnStatusRestored ==
    /\ Handle("STATUS_RESTORED")
    /\ toServer' = Sent(ListUsers)
    /\ Assigned("ACTIVE")

OnAutoInactive ==
    /\ Handle("AUTO_INACTIVE")
    /\ Assigned("INVISIBLE")
    /\ UNCHANGED toServer

Reselected_Kept == dmTarget

\* The addressees are cleared and filled again, which leaves a combo box with
\* a placeholder without a selection.
Reselected == NoPeer

OnAllUsers ==
    /\ Handle("ALL_USERS")
    /\ offered' = Head(toClient).who
    /\ dmTarget' = Reselected
    /\ UNCHANGED <<status_vars, mode, chatTabs, dmTabs, enabled, open, toServer,
                   server_vars, acts>>

OnForDm ==
    /\ Handle("FOR_DM")
    /\ \E p \in Head(toClient).who : OpenTab(p)
    /\ UNCHANGED <<status_vars, mode, dmTarget, offered, enabled, open, toServer,
                   server_vars, acts>>

\* Text in the log or in the general chat, or a dialog.
OnText ==
    /\ \E msg \in {"OTHER_RESPONSE", "BROADCAST_DELIVERY", "GET_USER_INFO_RESPONSE"} : Handle(msg)
    /\ UNCHANGED <<status_vars, dm_vars, enabled, open, toServer, server_vars, acts>>

OnConnectionLost ==
    /\ Handle("connectionLost")
    /\ enabled' = FALSE
    /\ UNCHANGED <<status_vars, dm_vars, open, toServer, server_vars, acts>>

-----------------------------------------------------------------------------
\* The server.

Notice(msg) == [msg |-> msg, who |-> {}]

\* The handler takes a request when it has sent what the last one asked for.
Serve(type) ==
    /\ serving /\ due = <<>> /\ toServer # <<>> /\ Head(toServer).type = type
    /\ toServer' = Tail(toServer)
    /\ UNCHANGED <<statusCombo, current_status, dm_vars, enabled, open, marked, pushes, acts>>

HandlerSends ==
    /\ serving /\ due # <<>>
    /\ due' = Tail(due)
    /\ Put(Head(due).msg, Head(due).who)
    /\ UNCHANGED <<status_vars, dm_vars, enabled, open, toServer, status, manual_status,
                   serving, marked, pushes, acts>>

ServeChangeStatus ==
    /\ Serve("CHANGE_STATUS")
    /\ status' = Head(toServer).status /\ manual_status' = Head(toServer).status
    /\ due' = <<Notice("OK_STATUS_CHANGED")>>
    /\ crossed' = (crossed \/ marked)
    /\ UNCHANGED <<toClient, serving>>

\* maybe_restore_activity: a message brings a user back whom the watchdog has
\* made INVISIBLE.
Restores == status = "INVISIBLE" /\ manual_status # "INVISIBLE"

\* A message is answered by a broadcast or a ServerResponse, after the notice.
ServeMessage ==
    /\ \E answer \in {"BROADCAST_DELIVERY", "OTHER_RESPONSE"} :
          /\ Serve(IF answer = "BROADCAST_DELIVERY" THEN "MESSAGE_GENERAL" ELSE "MESSAGE_DM")
          /\ due' = IF Restores THEN <<Notice("STATUS_RESTORED"), Notice(answer)>>
                                ELSE <<Notice(answer)>>
    /\ status' = IF Restores THEN "ACTIVE" ELSE status
    /\ manual_status' = IF Restores THEN "ACTIVE" ELSE manual_status
    /\ crossed' = (crossed \/ (Restores /\ marked))
    /\ UNCHANGED <<toClient, serving>>

\* Users come and go: any of the others may be online.
ServeQuery ==
    /\ \/ Serve("LIST_USERS") /\ \E who \in SUBSET Peer : due' = <<[msg |-> "ALL_USERS", who |-> who]>>
       \/ Serve("GET_USER_INFO") /\ due' = <<Notice("GET_USER_INFO_RESPONSE")>>
    /\ UNCHANGED <<crossed, toClient, status, manual_status, serving>>

ServeQuit ==
    /\ Serve("QUIT")
    /\ Put("OTHER_RESPONSE", {})
    /\ serving' = FALSE
    /\ UNCHANGED <<crossed, status, manual_status, due>>

Push ==
    /\ serving /\ pushes < MaxPushes
    /\ pushes' = pushes + 1
    /\ UNCHANGED <<statusCombo, current_status, dm_vars, enabled, open, toServer,
                   manual_status, due, acts>>

\* The watchdog finds the user idle; it looks again when it has said so.
MarkInactive ==
    /\ Push /\ status # "INVISIBLE" /\ ~marked
    /\ status' = "INVISIBLE" /\ marked' = TRUE
    /\ crossed' = (crossed \/ \E i \in DOMAIN due :
                                 due[i].msg \in {"OK_STATUS_CHANGED", "STATUS_RESTORED"})
    /\ UNCHANGED <<toClient, serving>>

\* The 602 is sent when the mutex has been released.
NotifyInactive ==
    /\ serving /\ marked
    /\ marked' = FALSE
    /\ Put("AUTO_INACTIVE", {})
    /\ UNCHANGED <<status_vars, dm_vars, enabled, open, toServer, status, manual_status,
                   serving, due, pushes, acts>>

\* Another user writes to this one.
PeerWrites(p) ==
    /\ Push
    /\ Put("FOR_DM", {p})
    /\ UNCHANGED <<crossed, status, serving, marked>>

\* The server, or the network, fails; run() says so unless it was stopped.
Fail ==
    /\ Push
    /\ serving' = FALSE
    /\ Put("connectionLost", {})
    /\ UNCHANGED <<crossed, status, marked>>

-----------------------------------------------------------------------------
User ==
    \/ \E s \in Status : OnChangeStatus(s)
    \/ SendGeneral \/ SendDm
    \/ \E type \in {"LIST_USERS", "GET_USER_INFO"} : Query(type)
    \/ \E m \in {"General", "DM"} : OnModeChanged(m)
    \/ \E p \in Peer : SelectTarget(p) \/ OnUserDoubleClicked(p) \/ CloseTab(p)
    \/ CloseEvent

Slot ==
    \/ OnStatusChanged \/ OnStatusRestored \/ OnAutoInactive \/ OnAllUsers
    \/ OnForDm \/ OnText \/ OnConnectionLost

Server ==
    \/ ServeChangeStatus \/ ServeMessage \/ ServeQuery \/ ServeQuit \/ HandlerSends
    \/ MarkInactive \/ NotifyInactive \/ Fail
    \/ \E p \in Peer : PeerWrites(p)

Next == User \/ Slot \/ Server

Spec == Init /\ [][Next]_vars

-----------------------------------------------------------------------------

\* The selector and the window's own idea of its status agree unless a change
\* is on its way: no order of choices, 201s, 602s and 603s leaves the selector
\* on a status that will be neither confirmed nor withdrawn.
ChoiceAgrees == open /\ serving /\ ~ChangePending => statusCombo = current_status

\* Nothing is on its way, nor about to be.
Quiet == open /\ serving /\ toServer = <<>> /\ due = <<>> /\ ~marked /\ toClient = <<>>

\* Once everything sent has been handled, the window shows the status that the
\* server keeps, provided that the changes did not cross: the user awaited each
\* answer, no 602 or 603 was handled while one was awaited, and neither of the
\* server's threads assigned a status before the other had sent word of its own.
StatusReflected == Quiet /\ ~crossed => current_status = status /\ statusCombo = status

\* "El cliente siempre reflejara el status que el servidor le tenga asignado"
\* (Proyecto.md:81), whatever the user did meanwhile.
StatusMirrored == Quiet => current_status = status

\* "una pestana por conversacion directa (se crean automaticamente al
\* enviar/recibir DMs)" (README.md:125): a DM that is sent or received can be
\* seen in a tab.
ConversationVisible ==
    [][/\ SendDm => dmTarget \in chatTabs'
       /\ OnForDm => Head(toClient).who \subseteq chatTabs']_vars

=============================================================================
