----------------------------- MODULE ChatServer -----------------------------
(***************************************************************************)
(* The chat server (src/src/server/server.cpp): one thread per accepted    *)
(* connection running handle_client, a watchdog thread, and the session    *)
(* registry they share.                                                    *)
(*                                                                         *)
(* A connection, the thread that serves it and the one SessionInfo object  *)
(* that thread may create are written with the same element c of Conn: a   *)
(* thread registers at most once, and its session lives as long as the     *)
(* last shared_ptr to it, which is longer than its entry in sessions_.     *)
(* A descriptor number (Fd) is a different thing: the kernel gives it to a *)
(* new connection once it has been closed.                                 *)
(*                                                                         *)
(* A step of a thread ends where another thread can see or disturb it:     *)
(* where sessions_mutex_ is taken or released, where a session field that  *)
(* two threads write is written, where a frame is sent.  A critical        *)
(* section that neither sends nor writes such a field is one step.  A send *)
(* puts a whole frame on the wire, fails, or waits, for as long as the     *)
(* client does not read; how two writers of one socket share it is the     *)
(* subject of FrameStream.tla.                                             *)
(***************************************************************************)
EXTENDS Naturals, Sequences, FiniteSets

CONSTANTS
    Conn,        \* connections, and the threads and sessions made for them
    Fd,          \* descriptor numbers
    Name,        \* user names
    Addr,        \* IP addresses of peers
    Requests,    \* the requests that each client may send
    MaxReads,    \* bound on the requests read from each connection
    Sleepers,    \* bound: the connections whose users may fall idle
    Resets,      \* bound: the connections that a departing client may reset
    Deaf,        \* the connections whose clients may stop reading
    NoConn, NoFd, NoName, NoAddr,
    Unknown,     \* what get_peer_ip returns when getpeername fails
    Watchdog,    \* the watchdog thread
    Nobody       \* the owner of a free mutex

Status == {"ACTIVE", "DO_NOT_DISTURB", "INVISIBLE"}

\* The requests that need a session, those of the handlers that begin with
\* get_session and refuse a connection that has none.
SessionTypes == {"MESSAGE_GENERAL", "MESSAGE_DM", "CHANGE_STATUS",
                 "LIST_USERS", "GET_USER_INFO"}

\* A frame from a client: its type, whether ParseFromString accepts its
\* payload, the user it names (the new user of a REGISTER, the addressee of a
\* MESSAGE_DM or GET_USER_INFO; NoName is the empty string or a name nobody
\* can have) and the status a CHANGE_STATUS asks for.  TOO_LONG is a frame whose
\* header announces more than 16 MB.
RequestType ==
    [type   : SessionTypes \cup {"REGISTER", "QUIT", "UNKNOWN", "TOO_LONG", "NONE"},
     parses : BOOLEAN,
     user   : Name \cup {NoName},
     status : Status \cup {"INVALID"}]

\* The value of a handler's request while it has none.
NoRequest == [type |-> "NONE", parses |-> FALSE, user |-> NoName, status |-> "INVALID"]

ASSUME ConstantsOK ==
    /\ NoConn \notin Conn /\ NoFd \notin Fd /\ NoName \notin Name
    /\ NoAddr \notin Addr /\ Unknown \notin Addr /\ Unknown # NoAddr
    /\ Nobody \notin Conn /\ Watchdog \notin Conn /\ Watchdog # Nobody
    /\ Requests \in [Conn -> SUBSET RequestType]
    /\ MaxReads \in [Conn -> Nat]
    /\ Sleepers \subseteq Conn /\ Resets \subseteq Conn /\ Deaf \subseteq Conn

\* Frames to a client.  A ServerResponse is written as its status code.
Answers == {"BAD_REQUEST", "NOT_REGISTERED", "USERNAME_TAKEN", "IP_TAKEN", "USER_NOT_FOUND",
            "OK_STATUS_CHANGED", "OK_DM_SENT", "OK_QUIT", "ALL_USERS",
            "GET_USER_INFO_RESPONSE", "NONE"}
Messages == Answers \cup {"OK_REGISTER", "AUTO_INACTIVE", "STATUS_RESTORED", "FOR_DM",
                          "BROADCAST_DELIVERY"}

\* What is sent, the session it is sent for, the thread that sends it, and the
\* request it comes from: the n-th that thread has read.  Only msg, and the
\* text and the names in re, are on the wire.
Frame == [msg : Messages, to : Conn, by : Conn \cup {Watchdog}, n : Nat, re : RequestType]

VARIABLES
    \* the kernel and the network
    sock,            \* the connection that a descriptor number denotes now
    fd,              \* handle_client's client_fd; also the session's socket_fd
    peer,            \* the address a connection comes from
    gone,            \* connections whose client has closed or crashed
    broken,          \* those of them that have been reset: nothing can be sent any more
    wire,            \* the frames written to each connection's socket
    \* the registry, guarded by sessions_mutex_
    sessions, username_to_fd, ip_to_fd, sessions_mutex,
    \* the session objects; idle says that idle_timeout_sec_ has passed since
    \* last_activity
    username, ip, status, manual_status, idle, alive,
    \* history: how often the server has made a user INVISIBLE, and restored it
    marks, restorations,
    \* the client threads: where each is, and the locals of its handler
    pc, reads, req, reply, targets,
    \* the watchdog thread
    wpc, scan, marking, to_notify

net      == <<sock, fd, peer, gone, broken>>
registry == <<sessions, username_to_fd, ip_to_fd>>
identity == <<username, ip, alive>>
history  == <<marks, restorations>>
presence == <<status, manual_status, idle, history>>
locals   == <<reads, req, reply, targets>>
dog      == <<wpc, scan, marking, to_notify>>
vars == <<net, wire, registry, sessions_mutex, identity, presence, pc, locals, dog>>

PCs == {"new", "recv", "refuse", "welcome", "restore", "setstatus", "remember", "restored",
        "touch", "collect", "broadcast", "lookup", "check", "deliver", "reply", "cleanup", "close",
        "closed"}

TypeOK ==
    /\ sock \in [Fd -> Conn \cup {NoConn}]
    /\ fd \in [Conn -> Fd \cup {NoFd}]
    /\ peer \in [Conn -> Addr \cup {NoAddr}]
    /\ gone \subseteq Conn /\ broken \subseteq Conn
    /\ wire \in [Conn -> Seq(Frame)]
    /\ sessions \in [Fd -> Conn \cup {NoConn}]
    /\ username_to_fd \in [Name -> Fd \cup {NoFd}]
    /\ ip_to_fd \in [Addr \cup {Unknown} -> Fd \cup {NoFd}]
    /\ sessions_mutex \in Conn \cup {Watchdog, Nobody}
    /\ username \in [Conn -> Name \cup {NoName}]
    /\ ip \in [Conn -> Addr \cup {Unknown, NoAddr}]
    /\ status \in [Conn -> Status]
    /\ manual_status \in [Conn -> Status]
    /\ idle \in [Conn -> BOOLEAN]
    /\ alive \in [Conn -> BOOLEAN]
    /\ marks \in [Conn -> Nat] /\ restorations \in [Conn -> Nat]
    /\ pc \in [Conn -> PCs]
    /\ reads \in [Conn -> Nat]
    /\ req \in [Conn -> RequestType]
    /\ reply \in [Conn -> Answers]
    /\ targets \in [Conn -> SUBSET Conn]
    /\ wpc \in {"sleep", "scan", "notify"}
    /\ scan \subseteq Conn
    /\ marking \in Conn \cup {NoConn}
    /\ to_notify \subseteq Conn

Init ==
    /\ sock = [f \in Fd |-> NoConn]
    /\ fd = [c \in Conn |-> NoFd]
    /\ peer = [c \in Conn |-> NoAddr]
    /\ gone = {} /\ broken = {}
    /\ wire = [c \in Conn |-> <<>>]
    /\ sessions = [f \in Fd |-> NoConn]
    /\ username_to_fd = [n \in Name |-> NoFd]
    /\ ip_to_fd = [a \in Addr \cup {Unknown} |-> NoFd]
    /\ sessions_mutex = Nobody
    /\ username = [c \in Conn |-> NoName]
    /\ ip = [c \in Conn |-> NoAddr]
    /\ status = [c \in Conn |-> "ACTIVE"]
    /\ manual_status = [c \in Conn |-> "ACTIVE"]
    /\ idle = [c \in Conn |-> FALSE]
    /\ alive = [c \in Conn |-> FALSE]
    /\ marks = [c \in Conn |-> 0] /\ restorations = [c \in Conn |-> 0]
    /\ pc = [c \in Conn |-> "new"]
    /\ reads = [c \in Conn |-> 0]
    /\ req = [c \in Conn |-> NoRequest]
    /\ reply = [c \in Conn |-> "NONE"]
    /\ targets = [c \in Conn |-> {}]
    /\ wpc = "sleep" /\ scan = {} /\ marking = NoConn /\ to_notify = {}

-----------------------------------------------------------------------------
\* Operators the actions share.

MutexFree == sessions_mutex = Nobody

\* get_session: the session found under a thread's own descriptor number.
HasSession(c) == sessions[fd[c]] # NoConn

\* All sessions in the registry.
Present == {sessions[f] : f \in Fd} \ {NoConn}

\* The session a user name leads to, through both maps; NoConn if none.
SessionOf(n) ==
    IF n \notin Name \/ username_to_fd[n] = NoFd
    THEN NoConn
    ELSE sessions[username_to_fd[n]]

\* get_peer_ip: getpeername fails once the connection has been reset.  It is called
\* before the mutex is waited for, so that the answer may be from before the reset.
PeerIp(c) == {peer[c]} \cup (IF c \in broken THEN {Unknown} ELSE {})

NewFrame(c, m, d, k, r) == [msg |-> m, to |-> d, by |-> c, n |-> k, re |-> r]

\* A send on the socket_fd of session d fails if the number is closed, or the
\* connection it denotes now has been reset.
SendFails(d) == sock[fd[d]] \in broken \cup {NoConn}

\* send_message on the socket_fd of session d: the bytes go to whichever connection
\* the number denotes now.  Every caller ignores the result and goes on.
Send(d, frame) ==
    wire' = IF SendFails(d)
            THEN wire
            ELSE [wire EXCEPT ![sock[fd[d]]] = Append(@, frame)]

Goto(c, label) == pc' = [pc EXCEPT ![c] = label]

\* recv_message returns a whole frame and handle_client dispatches on it.
Read(c, r) ==
    /\ pc[c] = "recv" /\ reads[c] < MaxReads[c]
    /\ reads' = [reads EXCEPT ![c] = @ + 1]
    /\ req' = [req EXCEPT ![c] = r]

\* The handler is about to send m to its own client and return.
Answer(c, m) ==
    /\ Goto(c, "reply")
    /\ reply' = [reply EXCEPT ![c] = m]

\* The handler returns: its locals die.
Return(c, label) ==
    /\ Goto(c, label)
    /\ req' = [req EXCEPT ![c] = NoRequest]
    /\ reply' = [reply EXCEPT ![c] = "NONE"]
    /\ targets' = [targets EXCEPT ![c] = {}]
    /\ UNCHANGED reads

-----------------------------------------------------------------------------
\* The environment: clients and the clock.

\* run(): accept() returns a new descriptor and a thread is started for it.
\* The kernel may return any number that is not in use (Linux: the lowest).
Accept(c, f, a) ==
    /\ pc[c] = "new" /\ sock[f] = NoConn
    /\ sock' = [sock EXCEPT ![f] = c]
    /\ fd' = [fd EXCEPT ![c] = f]
    /\ peer' = [peer EXCEPT ![c] = a]
    /\ Goto(c, "recv")
    /\ UNCHANGED <<gone, broken, wire, registry, sessions_mutex, identity, presence, locals, dog>>

\* A client closes its end, or its process ends.  Its thread can notice only when
\* it reads, so it happens then; what the client has sent before may still be read
\* and served.
HangUp(c) ==
    /\ pc[c] = "recv" /\ c \notin gone
    /\ gone' = gone \cup {c}
    /\ UNCHANGED <<sock, fd, peer, broken, wire, registry, sessions_mutex, identity, presence,
                   pc, locals, dog>>

\* The client's side answers what it is still sent, or leaves unread, with a reset:
\* from now on every send to it fails.
Reset(c) ==
    /\ c \in (gone \cap Resets) \ broken /\ pc[c] # "closed"
    /\ broken' = broken \cup {c}
    /\ UNCHANGED <<sock, fd, peer, gone, wire, registry, sessions_mutex, identity, presence,
                   pc, locals, dog>>

\* idle_timeout_sec_ seconds have passed since the session's last activity.
Elapse(c) ==
    /\ c \in Present \cap Sleepers /\ ~idle[c]
    /\ idle' = [idle EXCEPT ![c] = TRUE]
    /\ UNCHANGED <<net, wire, registry, sessions_mutex, identity, status, manual_status,
                   history, pc, locals, dog>>

-----------------------------------------------------------------------------
\* handle_register

\* A payload that does not parse, or an empty name: refused without the mutex.
RefuseRegister(c, r) ==
    /\ Read(c, r) /\ r.type = "REGISTER" /\ (~r.parses \/ r.user = NoName)
    /\ Answer(c, "BAD_REQUEST")
    /\ UNCHANGED <<net, wire, registry, sessions_mutex, identity, presence, targets, dog>>

NameTaken_Unchecked(n) == FALSE

NameTaken(n) == username_to_fd[n] # NoFd

\* What handle_register answers, in the order of its checks.
Verdict(c, n, a) ==
    IF HasSession(c)           THEN "BAD_REQUEST"
    ELSE IF NameTaken(n)       THEN "USERNAME_TAKEN"
    ELSE IF ip_to_fd[a] # NoFd THEN "IP_TAKEN"
    ELSE "OK_REGISTER"

HeldForReply_Released(c) == Nobody

\* The lock_guard lives to the end of handle_register, past the reply.
HeldForReply(c) == c

\* The checks refuse...
RejectRegister(c, r) ==
    /\ Read(c, r) /\ r.type = "REGISTER" /\ r.parses /\ r.user # NoName
    /\ MutexFree
    /\ sessions_mutex' = HeldForReply(c)
    /\ \E a \in PeerIp(c) :
          /\ Verdict(c, r.user, a) # "OK_REGISTER"
          /\ reply' = [reply EXCEPT ![c] = Verdict(c, r.user, a)]
    /\ Goto(c, "refuse")
    /\ UNCHANGED <<net, wire, registry, identity, presence, targets, dog>>

\* ... and the refusal is sent before the mutex is released.
SendRefusal(c) ==
    /\ pc[c] = "refuse"
    /\ Send(c, NewFrame(c, reply[c], c, reads[c], req[c]))
    /\ sessions_mutex' = Nobody
    /\ Return(c, "recv")
    /\ UNCHANGED <<net, registry, identity, presence, dog>>

\* The session is created and entered in the three maps...
Register(c, r) ==
    /\ Read(c, r) /\ r.type = "REGISTER" /\ r.parses /\ r.user # NoName
    /\ MutexFree
    /\ sessions_mutex' = HeldForReply(c)
    /\ \E a \in PeerIp(c) :
          /\ Verdict(c, r.user, a) = "OK_REGISTER"
          /\ ip' = [ip EXCEPT ![c] = a]
          /\ ip_to_fd' = [ip_to_fd EXCEPT ![a] = fd[c]]
    /\ username' = [username EXCEPT ![c] = r.user]
    /\ username_to_fd' = [username_to_fd EXCEPT ![r.user] = fd[c]]
    /\ sessions' = [sessions EXCEPT ![fd[c]] = c]
    /\ alive' = [alive EXCEPT ![c] = TRUE]
    /\ status' = [status EXCEPT ![c] = "ACTIVE"]
    /\ manual_status' = [manual_status EXCEPT ![c] = "ACTIVE"]
    /\ idle' = [idle EXCEPT ![c] = FALSE]
    /\ Goto(c, "welcome")
    /\ UNCHANGED <<net, wire, history, reply, targets, dog>>

\* ... and the client is told so before the mutex is released.
Welcome(c) ==
    /\ pc[c] = "welcome"
    /\ Send(c, NewFrame(c, "OK_REGISTER", c, reads[c], req[c]))
    /\ sessions_mutex' = Nobody
    /\ Return(c, "recv")
    /\ UNCHANGED <<net, registry, identity, presence, dog>>

-----------------------------------------------------------------------------
\* The start of the other handlers: get_session, then ParseFromString.

Stranger_Nobody(c) == FALSE

Stranger(c) == ~HasSession(c)

Valid_AnyStatus(r) == r.parses

Valid(r) == r.parses /\ (r.type = "CHANGE_STATUS" => r.status \in Status)

RefuseStranger(c, r) ==
    /\ Read(c, r) /\ r.type \in SessionTypes
    /\ MutexFree /\ Stranger(c)
    /\ Answer(c, "NOT_REGISTERED")
    /\ UNCHANGED <<net, wire, registry, sessions_mutex, identity, presence, targets, dog>>

RefuseMalformed(c, r) ==
    /\ Read(c, r) /\ r.type \in SessionTypes
    /\ MutexFree /\ ~Stranger(c) /\ ~Valid(r)
    /\ Answer(c, "BAD_REQUEST")
    /\ UNCHANGED <<net, wire, registry, sessions_mutex, identity, presence, targets, dog>>

\* Where each handler goes once it has a session and a message: messages may
\* restore the user's status, a status change sets it, queries do neither.
FirstStep(type) ==
    IF type \in {"MESSAGE_GENERAL", "MESSAGE_DM"} THEN "restore"
    ELSE IF type = "CHANGE_STATUS"                THEN "setstatus"
    ELSE "touch"

Begin(c, r) ==
    /\ Read(c, r) /\ r.type \in SessionTypes
    /\ MutexFree /\ ~Stranger(c) /\ Valid(r)
    /\ Goto(c, FirstStep(r.type))
    /\ UNCHANGED <<net, wire, registry, sessions_mutex, identity, presence, reply, targets, dog>>

\* A frame type the switch does not know.
RefuseUnknown(c, r) ==
    /\ Read(c, r) /\ r.type = "UNKNOWN"
    /\ Answer(c, "BAD_REQUEST")
    /\ UNCHANGED <<net, wire, registry, sessions_mutex, identity, presence, targets, dog>>

\* handle_quit: the loop is left whether or not the message parses; only a
\* registered client that parses is told goodbye.
HandleQuit(c, r) ==
    /\ Read(c, r) /\ r.type = "QUIT"
    /\ MutexFree
    /\ IF HasSession(c) /\ r.parses
       THEN Answer(c, "OK_QUIT")
       ELSE Goto(c, "cleanup") /\ UNCHANGED reply
    /\ UNCHANGED <<net, wire, registry, sessions_mutex, identity, presence, targets, dog>>

-----------------------------------------------------------------------------
\* maybe_restore_activity, touch_activity and the assignments of
\* handle_change_status.  The watchdog may run between any two of these steps.

AutoInactive_AnyInvisible(c) == status[c] = "INVISIBLE"

\* The server set the status INVISIBLE, the user did not.
AutoInactive(c) == status[c] = "INVISIBLE" /\ manual_status[c] # "INVISIBLE"

Restore(c) ==
    /\ pc[c] = "restore"
    /\ IF AutoInactive(c)
       THEN /\ status' = [status EXCEPT ![c] = "ACTIVE"]
            /\ restorations' = [restorations EXCEPT ![c] = @ + 1]
            /\ Goto(c, "remember")
       ELSE Goto(c, "touch") /\ UNCHANGED <<status, restorations>>
    /\ UNCHANGED <<net, wire, registry, sessions_mutex, identity, manual_status, idle, marks,
                   locals, dog>>

\* handle_change_status.
SetStatus(c) ==
    /\ pc[c] = "setstatus"
    /\ status' = [status EXCEPT ![c] = req[c].status]
    /\ reply' = [reply EXCEPT ![c] = "OK_STATUS_CHANGED"]
    /\ Goto(c, "remember")
    /\ UNCHANGED <<net, wire, registry, sessions_mutex, identity, manual_status, idle, history,
                   reads, req, targets, dog>>

\* The thread is on its way through maybe_restore_activity, not handle_change_status.
Restoring(c) == req[c].type # "CHANGE_STATUS"

Remembered_KeepsChoice(c) == IF Restoring(c) THEN manual_status[c] ELSE req[c].status

\* What manual_status becomes: ACTIVE with a restoration, although the user may have
\* chosen DO_NOT_DISTURB.
Remembered(c) == IF Restoring(c) THEN "ACTIVE" ELSE req[c].status

\* The second assignment of both, to manual_status.
Remember(c) ==
    /\ pc[c] = "remember"
    /\ manual_status' = [manual_status EXCEPT ![c] = Remembered(c)]
    /\ Goto(c, IF Restoring(c) THEN "restored" ELSE "touch")
    /\ UNCHANGED <<net, wire, registry, sessions_mutex, identity, status, idle, history,
                   locals, dog>>

NotifyRestored(c) ==
    /\ pc[c] = "restored"
    /\ Send(c, NewFrame(c, "STATUS_RESTORED", c, reads[c], req[c]))
    /\ Goto(c, "touch")
    /\ UNCHANGED <<net, registry, sessions_mutex, identity, presence, locals, dog>>

AfterTouch_SilentInfo(type) ==
    IF type \in {"MESSAGE_GENERAL", "LIST_USERS"} THEN "collect"
    ELSE IF type = "MESSAGE_DM"                   THEN "lookup"
    ELSE IF type = "GET_USER_INFO"                THEN "recv"
    ELSE "reply"

AfterTouch(type) ==
    IF type \in {"MESSAGE_GENERAL", "LIST_USERS"}    THEN "collect"
    ELSE IF type \in {"MESSAGE_DM", "GET_USER_INFO"} THEN "lookup"
    ELSE "reply"

Touch(c) ==
    /\ pc[c] = "touch"
    /\ idle' = [idle EXCEPT ![c] = FALSE]
    /\ Goto(c, AfterTouch(req[c].type))
    /\ UNCHANGED <<net, wire, registry, sessions_mutex, identity, status, manual_status,
                   history, locals, dog>>

-----------------------------------------------------------------------------
\* The rest of handle_message_general and handle_list_users.

\* Everybody in the registry, the sender too.
Targets(c) == {d \in Present : alive[d]}

CollectTargets(c) ==
    /\ pc[c] = "collect" /\ req[c].type = "MESSAGE_GENERAL" /\ MutexFree
    /\ targets' = [targets EXCEPT ![c] = Targets(c)]
    /\ Goto(c, "broadcast")
    /\ UNCHANGED <<net, wire, registry, sessions_mutex, identity, presence, reads, req, reply, dog>>

Unsent_Same(c, d) == targets[c]

\* The targets left once d has had its copy.
Unsent(c, d) == targets[c] \ {d}

\* The copies go out one by one, without the mutex, in the map's order.
SendNext(c, d) ==
    /\ pc[c] = "broadcast" /\ d \in targets[c]
    /\ Send(d, NewFrame(c, "BROADCAST_DELIVERY", d, reads[c], req[c]))
    /\ IF Unsent(c, d) = {}
       THEN Return(c, "recv")
       ELSE /\ targets' = [targets EXCEPT ![c] = Unsent(c, d)]
            /\ UNCHANGED <<pc, reads, req, reply>>
    /\ UNCHANGED <<net, registry, sessions_mutex, identity, presence, dog>>

\* The list is copied under the mutex and sent without it; what it holds is
\* left out.
ListUsers(c) ==
    /\ pc[c] = "collect" /\ req[c].type = "LIST_USERS" /\ MutexFree
    /\ Answer(c, "ALL_USERS")
    /\ UNCHANGED <<net, wire, registry, sessions_mutex, identity, presence, reads, req, targets, dog>>

-----------------------------------------------------------------------------
\* The rest of handle_message_dm and handle_get_user_info.

LookupUser(c) ==
    /\ pc[c] = "lookup" /\ MutexFree
    /\ LET d == SessionOf(req[c].user) IN
       \/ d = NoConn /\ Answer(c, "USER_NOT_FOUND") /\ UNCHANGED targets
       \/ /\ d # NoConn /\ req[c].type = "GET_USER_INFO"
          /\ Answer(c, "GET_USER_INFO_RESPONSE")
          /\ UNCHANGED targets
       \/ /\ d # NoConn /\ req[c].type = "MESSAGE_DM"
          /\ Goto(c, "check")
          /\ targets' = [targets EXCEPT ![c] = {d}]
          /\ UNCHANGED reply
    /\ UNCHANGED <<net, wire, registry, sessions_mutex, identity, presence, reads, req, dog>>

Deliverable_Inverted(d) == ~alive[d]

\* A message is written to every session that is alive, whatever its status.
Deliverable(d) == alive[d]

\* dest_session->alive is read without the mutex...
CheckAlive(c, d) ==
    /\ pc[c] = "check" /\ d \in targets[c]
    /\ IF Deliverable(d)
       THEN Goto(c, "deliver") /\ UNCHANGED reply
       ELSE Answer(c, "OK_DM_SENT")
    /\ UNCHANGED <<net, wire, registry, sessions_mutex, identity, presence, reads, req, targets, dog>>

\* ... and the session may be gone, and its descriptor reused, by now.
Deliver(c, d) ==
    /\ pc[c] = "deliver" /\ d \in targets[c]
    /\ Send(d, NewFrame(c, "FOR_DM", d, reads[c], req[c]))
    /\ Answer(c, "OK_DM_SENT")
    /\ UNCHANGED <<net, registry, sessions_mutex, identity, presence, reads, req, targets, dog>>

-----------------------------------------------------------------------------
\* The end of a handler and of a thread.

AfterReply(type) == IF type = "QUIT" THEN "cleanup" ELSE "recv"

Reply(c) ==
    /\ pc[c] = "reply"
    /\ Send(c, NewFrame(c, reply[c], c, reads[c], req[c]))
    /\ Return(c, AfterReply(req[c].type))
    /\ UNCHANGED <<net, registry, sessions_mutex, identity, presence, dog>>

AfterStream_Retry == "recv"

AfterStream == "cleanup"

\* recv_message returns false: the client has gone...
EndOfStream(c) ==
    /\ pc[c] = "recv" /\ c \in gone
    /\ Goto(c, AfterStream)
    /\ UNCHANGED <<net, wire, registry, sessions_mutex, identity, presence, locals, dog>>

\* ... or announces a payload above the limit, and is dropped without a word.
DropTooLong(c, r) ==
    /\ Read(c, r) /\ r.type = "TOO_LONG"
    /\ Goto(c, AfterStream)
    /\ UNCHANGED <<net, wire, registry, sessions_mutex, identity, presence, reply, targets, dog>>

ForgetName_Kept(s) == username_to_fd

ForgetName(s) == [username_to_fd EXCEPT ![username[s]] = NoFd]

ForgetAddr_Kept(s) == ip_to_fd

ForgetAddr(s) == [ip_to_fd EXCEPT ![ip[s]] = NoFd]

ForgetSession_Kept(f) == sessions

ForgetSession(f) == [sessions EXCEPT ![f] = NoConn]

\* The session found under the thread's descriptor, if any, leaves the three maps.
Forget(c) ==
    IF HasSession(c)
    THEN LET s == sessions[fd[c]] IN
         /\ alive' = [alive EXCEPT ![s] = FALSE]
         /\ username_to_fd' = ForgetName(s)
         /\ ip_to_fd' = ForgetAddr(s)
         /\ sessions' = ForgetSession(fd[c])
    ELSE UNCHANGED <<alive, registry>>

RemoveSession_Closed(c) ==
    /\ pc[c] = "cleanup" /\ MutexFree
    /\ Forget(c) /\ Return(c, "close")
    /\ sock' = [sock EXCEPT ![fd[c]] = NoConn]
    /\ UNCHANGED <<fd, peer, gone, broken, wire, sessions_mutex, username, ip, presence, dog>>

\* remove_session.
RemoveSession(c) ==
    /\ pc[c] = "cleanup" /\ MutexFree
    /\ Forget(c) /\ Return(c, "close")
    /\ UNCHANGED <<net, wire, sessions_mutex, username, ip, presence, dog>>

\* close(client_fd): the number is free for the next accept.
CloseSocket(c) ==
    /\ pc[c] = "close"
    /\ sock' = [sock EXCEPT ![fd[c]] = NoConn]
    /\ Goto(c, "closed")
    /\ UNCHANGED <<fd, peer, gone, broken, wire, registry, sessions_mutex, identity, presence,
                   locals, dog>>

-----------------------------------------------------------------------------
\* watchdog_loop, one round at a time: it takes the mutex and looks at every
\* session, then sends the notices without it.

WakeUp ==
    /\ wpc = "sleep" /\ MutexFree
    /\ Sleepers # {}    \* bound: no rounds where no user can be idle
    /\ wpc' = "scan" /\ scan' = Present
    /\ sessions_mutex' = Watchdog
    /\ UNCHANGED <<net, wire, registry, identity, presence, pc, locals, marking, to_notify>>

Overdue_Active(d) == alive[d] /\ status[d] = "ACTIVE" /\ idle[d]

\* The three tests of one session.
Overdue(d) == alive[d] /\ status[d] # "INVISIBLE" /\ idle[d]

\* A session's own thread does not need the mutex to write the fields tested,
\* so the assignment that follows the tests is another step.
CheckIdle(d) ==
    /\ wpc = "scan" /\ marking = NoConn /\ d \in scan
    /\ IF Overdue(d)
       THEN marking' = d
       ELSE UNCHANGED marking
    /\ scan' = scan \ {d}
    /\ UNCHANGED <<net, wire, registry, sessions_mutex, identity, presence, pc, locals,
                   wpc, to_notify>>

Marked_Silently(d) == to_notify

\* The sessions to be told, d among them.
Marked(d) == to_notify \cup {d}

Mark(d) ==
    /\ wpc = "scan" /\ marking = d
    /\ status' = [status EXCEPT ![d] = "INVISIBLE"]
    /\ marks' = [marks EXCEPT ![d] = @ + 1]
    /\ to_notify' = Marked(d)
    /\ marking' = NoConn
    /\ UNCHANGED <<net, wire, registry, sessions_mutex, identity, manual_status, idle,
                   restorations, pc, locals, wpc, scan>>

EndScan ==
    /\ wpc = "scan" /\ scan = {} /\ marking = NoConn
    /\ sessions_mutex' = Nobody
    /\ wpc' = IF to_notify = {} THEN "sleep" ELSE "notify"
    /\ UNCHANGED <<net, wire, registry, identity, presence, pc, locals, scan, marking, to_notify>>

Notify(d) ==
    /\ wpc = "notify" /\ d \in to_notify
    /\ Send(d, NewFrame(Watchdog, "AUTO_INACTIVE", d, 0, NoRequest))
    /\ to_notify' = to_notify \ {d}
    /\ wpc' = IF to_notify' = {} THEN "sleep" ELSE "notify"
    /\ UNCHANGED <<net, registry, sessions_mutex, identity, presence, pc, locals, scan, marking>>

-----------------------------------------------------------------------------
\* A client sends a request and its thread begins to serve it.
Serve(c, r) ==
    \/ RefuseRegister(c, r) \/ RejectRegister(c, r) \/ Register(c, r)
    \/ RefuseStranger(c, r) \/ RefuseMalformed(c, r) \/ Begin(c, r)
    \/ RefuseUnknown(c, r) \/ HandleQuit(c, r) \/ DropTooLong(c, r)

\* A thread goes on with what it has begun.
ThreadStep(c) ==
    \/ SendRefusal(c) \/ Welcome(c)
    \/ Restore(c) \/ SetStatus(c) \/ Remember(c) \/ NotifyRestored(c) \/ Touch(c)
    \/ CollectTargets(c) \/ ListUsers(c) \/ LookupUser(c)
    \/ \E d \in Conn : SendNext(c, d) \/ CheckAlive(c, d) \/ Deliver(c, d)
    \/ Reply(c) \/ EndOfStream(c) \/ RemoveSession(c) \/ CloseSocket(c)

WatchdogStep ==
    \/ WakeUp \/ EndScan
    \/ \E d \in Conn : CheckIdle(d) \/ Mark(d) \/ Notify(d)

Next ==
    \/ \E c \in Conn :
          \/ \E f \in Fd, a \in Addr : Accept(c, f, a)
          \/ HangUp(c) \/ Reset(c) \/ Elapse(c)
          \/ \E r \in Requests[c] : Serve(c, r)
          \/ ThreadStep(c)
    \/ WatchdogStep

\* The sessions that a thread, or the watchdog, has yet to write to before it goes on.
Addressees(c) ==
    IF pc[c] \in {"refuse", "welcome", "restored", "reply"} THEN {c}
    ELSE IF pc[c] \in {"broadcast", "deliver"}              THEN targets[c]
    ELSE {}

NotifyList == IF wpc = "notify" THEN to_notify ELSE {}

\* A send may wait for ever for a client that does not read; not for one that has
\* gone.
MayBlock(ds) == \E d \in ds : sock[fd[d]] \in Deaf \ gone

\* Threads that can run do run; no client ever has to do anything, not even to read:
\* a send to a Deaf one need not return.  A thread that waits for the mutex gets it
\* although the watchdog takes it in every round: between two rounds the watchdog
\* sleeps for ten seconds.
Fairness ==
    /\ \A c \in Conn : SF_vars(ThreadStep(c) /\ ~MayBlock(Addressees(c)))
    /\ WF_vars(WatchdogStep /\ ~MayBlock(NotifyList))

Spec == Init /\ [][Next]_vars

FairSpec == Spec /\ Fairness

-----------------------------------------------------------------------------
\* The registry.

\* The three maps describe the same sessions: each session is found under its
\* own descriptor, its name and its address, and no name or address leads to a
\* descriptor without the session that bears it.  handle_register and
\* remove_session update the maps one after the other.
RegistryConsistent ==
    /\ \A f \in Fd : sessions[f] # NoConn =>
          LET s == sessions[f] IN
          /\ fd[s] = f /\ alive[s]
          /\ username[s] \in Name /\ username_to_fd[username[s]] = f
          /\ ip[s] # NoAddr /\ ip_to_fd[ip[s]] = f
    /\ \A n \in Name : username_to_fd[n] # NoFd =>
          LET s == sessions[username_to_fd[n]] IN s # NoConn /\ username[s] = n
    /\ \A a \in Addr \cup {Unknown} : ip_to_fd[a] # NoFd =>
          LET s == sessions[ip_to_fd[a]] IN s # NoConn /\ ip[s] = a

\* A session in the registry belongs to the connection its descriptor denotes
\* now: the kernel may hand out a number again as soon as handle_client has
\* closed it, and a session left behind would be taken for the next client's.
DescriptorOwned ==
    \A f \in Fd : sessions[f] # NoConn => sock[f] = sessions[f]

\* The users online, as the abstract registry of Directory sees them.
Online == {[conn |-> c, name |-> username[c], addr |-> ip[c]] : c \in Present}

Dir == INSTANCE Directory WITH Addr <- Addr \cup {Unknown}, online <- Online

\* The maps, the mutex and the reused descriptors implement the abstract list:
\* users join one at a time under a connection, name and address nobody online
\* has, and leave one at a time.
DirectorySpec == Dir!Spec

-----------------------------------------------------------------------------
\* The frames on the wires.

Frames(x) == {wire[x][i] : i \in DOMAIN wire[x]}
AllFrames == UNION {Frames(x) : x \in Conn}

\* No frame that another thread writes for a session is on its client's wire before
\* the welcome: the mutex is held from the entry in the maps to the reply, so that a
\* broadcast or a DM cannot overtake it.  (A frame for the number's last owner can:
\* StraysAreLate.)
WelcomeFirst ==
    \A c \in Conn : \A i \in DOMAIN wire[c] :
        wire[c][i].to = c /\ wire[c][i].by # c =>
            \E j \in 1..(i - 1) : wire[c][j].msg = "OK_REGISTER" /\ wire[c][j].to = c

\* A DM is written for a session that bears the name it was sent to, although
\* the name is looked up as a descriptor number in one map and the number in
\* another.
DmAddressee ==
    \A m \in AllFrames : m.msg = "FOR_DM" => username[m.to] = m.re.user

\* "DM sent" is said of a message that was written for a session of that name, or that
\* could not be: the session had been removed by then, or its connection reset and the
\* send failed unnoticed.
DmConfirmed ==
    \A m \in AllFrames : m.msg = "OK_DM_SENT" =>
        \E d \in Conn :
            /\ username[d] = m.re.user
            /\ \/ ~alive[d] \/ d \in broken
               \/ \E e \in AllFrames : e.msg = "FOR_DM" /\ e.by = m.by /\ e.n = m.n /\ e.to = d

Delivery == {"FOR_DM", "BROADCAST_DELIVERY"}

\* What one client sends, another gets in the order it was sent, and once:
\* handle_client serves one request at a time, and a request writes at most one
\* message for each session.
InOrderOnce ==
    \A x \in Conn : \A j \in DOMAIN wire[x] : \A i \in 1..(j - 1) :
        LET a == wire[x][i]
            b == wire[x][j] IN
        a.msg \in Delivery /\ b.msg \in Delivery /\ a.by = b.by /\ a.to = b.to => a.n < b.n

\* Where the answers of c's thread to the k-th request are on the wire: a broadcast is
\* answered by the sender's own copy, and the notices of its status and a DM to itself
\* are no answers.
AnswersTo(c, k) ==
    {i \in DOMAIN wire[c] :
        /\ wire[c][i].by = c /\ wire[c][i].n = k
        /\ wire[c][i].msg \notin {"STATUS_RESTORED", "FOR_DM"}}

\* The thread has left its loop over a request that gets no answer: a frame that is too
\* long, or a QUIT that does not parse or comes from somebody who is not registered.
LeftInSilence(c) ==
    /\ pc[c] = "cleanup"
    /\ \/ req[c].type = "TOO_LONG"
       \/ req[c].type = "QUIT" /\ (~req[c].parses \/ ~HasSession(c))

\* When a thread is ready for the next request, or has left its loop, each request that
\* it has read has been answered by one frame, but for a last one that ends the loop in
\* silence; a client that has reset the connection gets one at most.  The client tells
\* answers apart by their order only, and every early return of a handler must send one.
OneAnswer ==
    \A c \in Conn : pc[c] \in {"recv", "cleanup"} =>
        \A k \in 1..reads[c] :
            LET n == Cardinality(AnswersTo(c, k)) IN
            IF LeftInSilence(c) /\ k = reads[c] THEN n = 0
            ELSE IF c \in broken                 THEN n <= 1
            ELSE n = 1

Refusals == {"BAD_REQUEST", "NOT_REGISTERED", "USERNAME_TAKEN", "IP_TAKEN"}

\* A connection that has not registered is refused whatever it asks for: any
\* other answer comes after the welcome.
RegisteredFirst ==
    \A c \in Conn : \A i \in DOMAIN wire[c] :
        wire[c][i].by = c /\ wire[c][i].to = c /\ wire[c][i].msg \notin Refusals =>
            \E j \in 1..i : wire[c][j].msg = "OK_REGISTER" /\ wire[c][j].by = c

\* "El cliente no recibe un ForDm de su propio mensaje (solo lo recibe el
\* destinatario)" (docs/IMPLEMENTATION.md:71): a DM goes to the connection of the
\* session it is written for.  dest_session->alive and socket_fd are used after
\* the mutex is released.
DmReachesAddressee ==
    \A x \in Conn : \A m \in Frames(x) : m.msg = "FOR_DM" => m.to = x

\* What does not reach the connection it is written for is a message or a notice of
\* another thread, never an answer, and it reaches one that was given the descriptor
\* number after the addressee's thread had closed it: to write after the mutex has
\* been released is wrong in no other way.
StraysAreLate ==
    \A x \in Conn : \A m \in Frames(x) : m.to # x =>
        /\ m.by # m.to /\ m.msg \in Delivery \cup {"AUTO_INACTIVE"}
        /\ pc[m.to] = "closed" /\ fd[x] = fd[m.to]

-----------------------------------------------------------------------------
\* Presence.

\* The status others see is the one the server remembers as chosen, or INVISIBLE, and
\* between the two assignments of a change the one it is about to remember: the watchdog
\* and the user's own thread, which do not exclude each other, never leave a third
\* combination.  What is remembered need not be the user's choice: a restoration makes
\* it ACTIVE.
RememberedOrInvisible ==
    \A c \in Conn :
        status[c] \in {IF pc[c] = "remember" THEN Remembered(c) ELSE manual_status[c], "INVISIBLE"}

\* A user who chose INVISIBLE is never shown again by sending messages, only by another
\* CHANGE_STATUS.
ChoiceKept ==
    [][\A c \in Present : manual_status[c] = "INVISIBLE" /\ manual_status'[c] # "INVISIBLE"
          => pc[c] = "remember" /\ req[c].type = "CHANGE_STATUS"]_vars

Told(c, m) == Cardinality({i \in DOMAIN wire[c] : wire[c][i].msg = m /\ wire[c][i].to = c})

\* Thread and watchdog have nothing under way that concerns c.
AtRest(c) == c \in Present /\ pc[c] = "recv" /\ wpc = "sleep"

\* Nobody is made INVISIBLE, or restored, in silence: when nothing is under way, a user
\* whose connection has not been reset has one 602 for each time the watchdog marked it
\* and one 603 for each time its thread restored it.
NoticesBalance ==
    \A c \in Conn : AtRest(c) /\ c \notin broken =>
        /\ Told(c, "AUTO_INACTIVE") = marks[c]
        /\ Told(c, "STATUS_RESTORED") = restorations[c]

\* A client that has gone, in the middle of whatever it asked for, leaves the registry,
\* and its name, address and descriptor become free.  (With one connection, as checked:
\* RegistryStall of ServerThreads.tla says for which others its thread may wait.)
DepartedReleased ==
    \A c \in Conn : c \in gone ~> pc[c] = "closed" /\ c \notin Present

\* The watchdog, or whoever keeps the mutex, is in a send to a client that does not read.
HeldUp ==
    \/ MayBlock(NotifyList)
    \/ \E c \in Conn : sessions_mutex = c /\ MayBlock(Addressees(c))

\* A user who stays idle is made INVISIBLE, whatever status was chosen, unless a client
\* that does not read holds the watchdog up for ever: its 602 is sent with no timeout,
\* and so are the answers of handle_register with the mutex held.
IdleMarked ==
    []<>~HeldUp =>
        \A c \in Conn : idle[c] ~> status[c] = "INVISIBLE" \/ ~idle[c] \/ c \notin Present

\* The status a frame tells the client it has.
Tells(m) ==
    CASE m.msg \in {"OK_REGISTER", "STATUS_RESTORED"} -> {"ACTIVE"}
      [] m.msg = "OK_STATUS_CHANGED"                  -> {m.re.status}
      [] m.msg = "AUTO_INACTIVE"                      -> {"INVISIBLE"}
      [] OTHER                                        -> {}

\* "El cliente siempre reflejara el status que el servidor le tenga asignado"
\* (Proyecto.md:81): the last word a client has on its status is the status the
\* server keeps for it.
StatusTold ==
    \A c \in Conn \ gone : AtRest(c) =>
        \E i \in DOMAIN wire[c] :
            /\ wire[c][i].to = c /\ Tells(wire[c][i]) = {status[c]}
            /\ \A j \in DOMAIN wire[c] :
                   j > i /\ wire[c][j].to = c => Tells(wire[c][j]) = {}

=============================================================================
