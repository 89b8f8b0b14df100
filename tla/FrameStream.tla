----------------------------- MODULE FrameStream -----------------------------
(***************************************************************************)
(* The byte stream under the frames (include/chat/protocol.h) and the      *)
(* threads of the server that share a socket (server.cpp: send_locked,     *)
(* send_response_bare).  send_message writes a header and then a payload,  *)
(* each with a loop around send(); recv_message reads them with a loop     *)
(* around recv().                                                          *)
(*                                                                         *)
(* A descriptor number is followed through the connections it denotes one  *)
(* after the other; a connection c, the thread that serves it and its      *)
(* session are the same element of Conn, as in ChatServer.tla.  The stream *)
(* is made of cells, of which a header has Header and a payload as many as *)
(* its length; a send() or recv() that moves several at once is several    *)
(* steps in a row.                                                         *)
(***************************************************************************)
EXTENDS Naturals, Sequences, FiniteSets

CONSTANTS
    Conn,       \* the connections that get the descriptor number
    Other,      \* other threads that write to it: handlers, the watchdog
    Rude,       \* connections whose clients, once registered, send a type that
                \* the server does not know, or a REGISTER without a name or that
                \* does not parse
    Header,     \* HEADER_SIZE, in cells
    Limit,      \* the longest payload recv_message accepts
    Lengths,    \* the lengths of the payloads that each thread sends
    MaxSends,   \* bound on the frames that each thread sends
    Garbage,    \* what recv_message returns of bytes that are not one frame's
    NoConn,     \* the number is not in use
    Nobody      \* the owner of a free send_mutex

Writer == Conn \cup Other

\* A frame: the thread that sends it, how many that thread has sent, and the
\* length in its header.
Frame == [by : Writer, n : Nat, len : Nat]

ASSUME ConstantsOK ==
    /\ Conn \cap Other = {} /\ Rude \subseteq Conn
    /\ NoConn \notin Conn /\ Nobody \notin Writer
    /\ Header \in Nat \ {0} /\ Limit \in Nat /\ Lengths \in [Writer -> SUBSET Nat]
    /\ MaxSends \in [Writer -> Nat] /\ Garbage \notin Frame

Cell == [frame : Frame, at : Nat]

\* The bytes of a frame.
Cells(f) == [i \in 1..(Header + f.len) |-> [frame |-> f, at |-> i]]

\* What a thread is sending, the session it is for, how many cells of it have
\* been written, and whether it is sent without the session's send_mutex.
NoSend == [stage |-> "idle"]
Sending == [stage : {"wait", "write"}, to : Conn, frame : Frame, done : Nat, bare : BOOLEAN]

VARIABLES
    sock,        \* the connection the descriptor number denotes now
    closed,      \* connections whose thread has closed the descriptor
    gone,        \* connections whose client has closed its end
    registered,  \* connections whose session is in the registry
    send_mutex,  \* SessionInfo::send_mutex, by session
    out, count,  \* what each thread sends; the frames it has begun
    pipe,        \* cells written to a connection and not yet read
    rpc,         \* where its reader is
    sent, got,   \* history: the frames begun on a connection, those received
    mixed        \* history: frames have been written to a connection without
                 \* a mutex in common

kernel == <<sock, closed, gone>>
writers == <<registered, send_mutex, out, count>>
vars == <<kernel, writers, pipe, rpc, sent, got, mixed>>

TypeOK ==
    /\ sock \in Conn \cup {NoConn} /\ closed \subseteq Conn /\ gone \subseteq Conn
    /\ registered \subseteq Conn
    /\ send_mutex \in [Conn -> Writer \cup {Nobody}]
    /\ out \in [Writer -> Sending \cup {NoSend}]
    /\ count \in [Writer -> Nat]
    /\ pipe \in [Conn -> Seq(Cell)]
    /\ rpc \in [Conn -> {"recv", "refused", "stopped"}]
    /\ sent \in [Conn -> Seq(Frame)]
    /\ got \in [Conn -> Seq(Frame \cup {Garbage})]
    /\ mixed \in [Conn -> BOOLEAN]

Init ==
    /\ sock = NoConn /\ closed = {} /\ gone = {} /\ registered = {}
    /\ send_mutex = [c \in Conn |-> Nobody]
    /\ out = [w \in Writer |-> NoSend] /\ count = [w \in Writer |-> 0]
    /\ pipe = [c \in Conn |-> <<>>]
    /\ rpc = [c \in Conn |-> "recv"]
    /\ sent = [c \in Conn |-> <<>>] /\ got = [c \in Conn |-> <<>>]
    /\ mixed = [c \in Conn |-> FALSE]

-----------------------------------------------------------------------------
\* The descriptor number, and the client's end of the connection.

\* The reader reads no more, and what it has not read is lost.
StopReading(c, how) ==
    /\ rpc' = [rpc EXCEPT ![c] = how]
    /\ pipe' = [pipe EXCEPT ![c] = <<>>]

Accept(c) ==
    /\ sock = NoConn /\ c \notin closed
    /\ sock' = c
    /\ UNCHANGED <<closed, gone, writers, pipe, rpc, sent, got, mixed>>

Register_WhileSending(c) ==
    /\ sock = c /\ c \notin registered
    /\ registered' = registered \cup {c}
    /\ UNCHANGED <<kernel, send_mutex, out, count, pipe, rpc, sent, got, mixed>>

\* The session is entered in the registry.  No other thread finds it before
\* the welcome has been sent (WelcomeFirst in ChatServer.tla), so that the
\* welcome is one of the frames the thread sends before this step.
Register(c) ==
    /\ sock = c /\ c \notin registered /\ out[c] = NoSend
    /\ registered' = registered \cup {c}
    /\ UNCHANGED <<kernel, send_mutex, out, count, pipe, rpc, sent, got, mixed>>

\* The thread leaves its loop: remove_session, then close.  Other threads may
\* be writing, or be about to.
Close(c) ==
    /\ sock = c /\ out[c] = NoSend
    /\ registered' = registered \ {c}
    /\ sock' = NoConn
    /\ closed' = closed \cup {c}
    /\ UNCHANGED <<gone, send_mutex, out, count, pipe, rpc, sent, got, mixed>>

\* The client closes its end, or crashes; it reads no more.
Leave(c) ==
    /\ sock = c /\ c \notin gone
    /\ gone' = gone \cup {c}
    /\ StopReading(c, "stopped")
    /\ UNCHANGED <<sock, closed, writers, sent, got, mixed>>

-----------------------------------------------------------------------------
\* The threads that write.

Writing(w) == out[w].stage = "write"

\* Threads that write for session c at this moment.
WritersOf(c) == {w \in Writer : Writing(w) /\ out[w].to = c}

\* Thread w sets out to send a frame for session c.
Begin(w, c, l, stage, bare) ==
    /\ out[w] = NoSend /\ count[w] < MaxSends[w]
    /\ count' = [count EXCEPT ![w] = @ + 1]
    /\ out' = [out EXCEPT ![w] =
          [stage |-> stage, to |-> c, done |-> 0, bare |-> bare,
           frame |-> [by |-> w, n |-> count[w] + 1, len |-> l]]]
    /\ UNCHANGED <<kernel, registered, send_mutex, pipe, rpc, sent, got>>

\* send_locked: by the session's own thread, and by any thread that has found
\* the session in the registry, whatever becomes of it afterwards.
SendLocked(w, c, l) ==
    /\ c \in registered /\ (w = c \/ w \in Other)
    /\ Begin(w, c, l, "wait", FALSE)
    /\ UNCHANGED mixed

\* send_response_bare: to a connection without a session, and to any connection
\* in the default branch of handle_client and at the start of handle_register.
SendBare(c, l) ==
    /\ sock = c /\ (c \in registered => c \in Rude)
    /\ Begin(c, c, l, "write", TRUE)
    /\ mixed' = [mixed EXCEPT ![c] = @ \/ WritersOf(c) # {}]

MutexFree_Always(c) == TRUE

MutexFree(c) == send_mutex[c] = Nobody

\* The lock_guard of send_locked.
Lock(w) ==
    /\ out[w].stage = "wait"
    /\ LET c == out[w].to IN
       /\ MutexFree(c)
       /\ send_mutex' = [send_mutex EXCEPT ![c] = w]
       /\ mixed' = [mixed EXCEPT ![c] = @ \/ \E v \in WritersOf(c) : out[v].bare]
    /\ out' = [out EXCEPT ![w].stage = "write"]
    /\ UNCHANGED <<kernel, registered, count, pipe, rpc, sent, got>>

\* send_message returns and the lock_guard, if any, dies.
Finish(w) ==
    /\ out' = [out EXCEPT ![w] = NoSend]
    /\ send_mutex' = IF out[w].bare THEN send_mutex
                     ELSE [send_mutex EXCEPT ![out[w].to] = Nobody]

FrameSize_Short(f) == Header + (IF f.len = 0 THEN 0 ELSE f.len - 1)

\* The cells send_message writes: the payload's length is not looked at, but
\* for being zero.
FrameSize(f) == Header + f.len

\* The next cell goes to whichever connection the number denotes now.
WriteCell(w) ==
    /\ Writing(w) /\ sock # NoConn /\ sock \notin gone
    /\ LET f == out[w].frame
           i == out[w].done + 1 IN
       /\ pipe' = [pipe EXCEPT ![sock] = Append(@, [frame |-> f, at |-> i])]
       /\ sent' = IF i = 1 THEN [sent EXCEPT ![sock] = Append(@, f)] ELSE sent
       /\ mixed' = [mixed EXCEPT ![sock] = @ \/ out[w].to # sock]
       /\ IF i = FrameSize(f)
          THEN Finish(w)
          ELSE out' = [out EXCEPT ![w].done = i] /\ UNCHANGED send_mutex
    /\ UNCHANGED <<kernel, registered, count, rpc, got>>

\* send() fails: the rest of the frame is given up, and nobody is told.
WriteFails(w) ==
    /\ Writing(w) /\ (sock = NoConn \/ sock \in gone)
    /\ Finish(w)
    /\ UNCHANGED <<kernel, registered, count, pipe, rpc, sent, got, mixed>>

-----------------------------------------------------------------------------
\* The reader: recv_message, again and again.  What read_exact has got so far
\* nobody sees, and so the cells stay in the pipe until it has all of them.

\* The length in a header: of the frame whose header it is, and anything if
\* the cells are of several.
Announced(b) ==
    LET f == b[1].frame IN
    IF SubSeq(b, 1, Header) = SubSeq(Cells(f), 1, Header) THEN {f.len} ELSE 0..(Limit + 1)

Decoded_Header(b) == b[1]

\* The frame that the cells are.
Decoded(b) == IF b = Cells(b[1].frame) THEN b[1].frame ELSE Garbage

TooLong_OffByOne(l) == l >= Limit

TooLong(l) == l > Limit

\* The lengths that the reader may read in the header at hand, if there is one.
InHeader(c) == IF Len(pipe[c]) < Header THEN {} ELSE Announced(pipe[c])

\* The whole frame has arrived and goes to the handlers.
Receive(c) ==
    /\ rpc[c] = "recv"
    /\ \E l \in InHeader(c) :
          /\ ~TooLong(l) /\ Len(pipe[c]) >= Header + l
          /\ got' = [got EXCEPT ![c] = Append(@, Decoded(SubSeq(pipe[c], 1, Header + l)))]
          /\ pipe' = [pipe EXCEPT ![c] = SubSeq(@, Header + l + 1, Len(@))]
    /\ UNCHANGED <<kernel, writers, rpc, sent, mixed>>

\* The payload is above the limit: the reader gives the connection up.
Refuse(c) ==
    /\ rpc[c] = "recv"
    /\ \E l \in InHeader(c) : TooLong(l)
    /\ StopReading(c, "refused")
    /\ UNCHANGED <<kernel, writers, sent, got, mixed>>

\* recv() returns 0 between two frames or in the middle of one, or fails with
\* frames still unread (closing a socket with unread input resets the connection).
EndOfStream(c) ==
    /\ rpc[c] = "recv" /\ c \in closed
    /\ StopReading(c, "stopped")
    /\ UNCHANGED <<kernel, writers, sent, got, mixed>>

-----------------------------------------------------------------------------
WriterStep(w) == Lock(w) \/ WriteCell(w) \/ WriteFails(w)

ReaderStep(c) == Receive(c) \/ Refuse(c) \/ EndOfStream(c)

Next ==
    \/ \E c \in Conn : Accept(c) \/ Register(c) \/ Close(c) \/ Leave(c) \/ ReaderStep(c)
    \/ \E c \in Conn : \E l \in Lengths[c] : SendBare(c, l)
    \/ \E w \in Writer, c \in Conn : \E l \in Lengths[w] : SendLocked(w, c, l)
    \/ \E w \in Writer : WriterStep(w)

Spec == Init /\ [][Next]_vars

-----------------------------------------------------------------------------
\* Each connection is a channel of whole frames, however reads and writes are
\* cut and whenever either end closes, until two threads write to it without a
\* mutex in common: a bare send to a registered client meets another send, or
\* a thread still writes for a session whose descriptor number has passed on.
Chan(c) == INSTANCE Channel WITH sent <- sent[c], got <- got[c], corrupt <- mixed[c]

\* Chan(c)!Spec for every c, written as one formula.
ChannelSpec ==
    /\ \A c \in Conn : Chan(c)!Init
    /\ [][\A c \in Conn : [Chan(c)!Next]_<<sent[c], got[c], mixed[c]>>]_vars

\* Only send_message's caller knows how long a payload is and only the receiver
\* has a limit: a reader drops the connection for a frame that is longer, for no
\* other, and never hands such a frame on.
LimitKept ==
    \A c \in Conn : ~mixed[c] =>
        /\ \A i \in DOMAIN got[c] : got[c][i] # Garbage /\ got[c][i].len <= Limit
        /\ rpc[c] = "refused" => sent[c][Len(got[c]) + 1].len > Limit

\* No reader is left waiting for the rest of a frame: when no thread is in the
\* middle of one and the connection still has its descriptor, what has been
\* written and not read is whole frames, or ends in one that is refused.
RestComes ==
    \A c \in Conn :
        sock = c /\ rpc[c] = "recv" /\ ~mixed[c] /\ WritersOf(c) = {} /\ pipe[c] # <<>> =>
            \E l \in InHeader(c) : TooLong(l) \/ Len(pipe[c]) >= Header + l

\* Two threads write for a session at once only if its client is rude, whether
\* they take the mutex or not; and the frames of a client that is not are mixed only
\* when the number has been another connection's before, whose writer goes on.
WritersExclude ==
    \A c \in Conn \ Rude :
        /\ \A v, w \in WritersOf(c) : v = w
        /\ mixed[c] => closed \ {c} # {}

=============================================================================
