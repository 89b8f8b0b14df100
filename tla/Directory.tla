------------------------------ MODULE Directory ------------------------------
(***************************************************************************)
(* What the session registry of the chat server promises: a list of the    *)
(* users that are online, in which no connection, no user name and no IP   *)
(* address occurs twice, and which changes by one user joining or one user *)
(* leaving at a time.  The three hash maps of ChatServer (sessions_,       *)
(* username_to_fd_, ip_to_fd_), their keys (descriptor numbers, which the  *)
(* kernel reuses) and the mutex do not appear here: ChatServer.tla shows   *)
(* that together they behave as this one list.                             *)
(***************************************************************************)

CONSTANTS Conn,   \* accepted connections
          Name,   \* user names
          Addr    \* IP addresses

VARIABLE online   \* the users that are online

User == [conn : Conn, name : Name, addr : Addr]

TypeOK == online \subseteq User

Init == online = {}

\* A user may join if nobody online has its connection, its name or its
\* address.
Join(u) ==
    /\ \A o \in online : o.conn # u.conn /\ o.name # u.name /\ o.addr # u.addr
    /\ online' = online \cup {u}

\* A user leaves, and with it its name and address become free.
Leave(u) ==
    /\ u \in online
    /\ online' = online \ {u}

Next == \E u \in User : Join(u) \/ Leave(u)

Spec == Init /\ [][Next]_online

-----------------------------------------------------------------------------

\* No two users online share a connection, a name or an address.
Distinct ==
    \A u, v \in online :
        u.conn = v.conn \/ u.name = v.name \/ u.addr = v.addr => u = v

=============================================================================
