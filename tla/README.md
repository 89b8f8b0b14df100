# A formal model of Simple-Chat-Protocol

TLA+ modules of the chat server and of the chat client, the TLC configurations
that check them on small instances, and TLAPS proofs of what holds for every
instance. Source paths below are relative to the repository (`src/server/…`,
`src/client/…`, `include/chat/…`).

## 1. The system

| Part | State | Operations | Interacts with |
|---|---|---|---|
| **Session registry** (`server.h`, `server.cpp`) | `sessions_` (descriptor → session), `username_to_fd_`, `ip_to_fd_`, `sessions_mutex_` | `get_session`, the body of `handle_register`, `remove_session` | every thread of the server |
| **Client handler threads** (`handle_client` and the `handle_*`) | descriptor, request at hand, locals such as `targets`, `dest_session` | one read loop per connection: register, broadcast, DM, status, list, user data, quit; clean-up | registry (mutex), sessions (shared pointers), sockets |
| **Presence** (`SessionInfo`) | `status`, `manual_status`, `last_activity`, `alive` | `maybe_restore_activity`, `touch_activity`, `handle_change_status` | written by the session's own thread *without* the mutex and by the watchdog with it |
| **Watchdog** (`watchdog_loop`) | `to_notify` | every 10 s: test and mark under the mutex, then send 602s without it | registry, sessions, sockets |
| **Framing** (`protocol.h`) | the bytes on their way | 5-byte header, `read_exact`, `write_exact`, 16 MB limit on reception | server and client |
| **Server start and stop** (`run`, `stop`, `main.cpp`) | `running_`, `listen_fd_`, thread list | accept loop, signal handler | all threads |
| **Client window** (`mainwindow.cpp`) | status selector and `current_status_`, mode and addressee selectors, list, tabs and `dmTabs_` | slots for the user's actions and for the network's signals | network thread (queued signals), sender |
| **Client network** (`network.cpp`) | `running_`, the socket | reads frames and emits signals; sends requests | window, server |
| **Client start** (`client/main.cpp`) | — | connects, registers, waits for the first frame, opens the window | server |

### What is hard about it

* **Descriptors are keys and are reused.** The registry, and every send, name a
  connection by its descriptor number. The kernel gives the number to the next
  connection as soon as `handle_client` has closed it, while other threads may
  still hold a `shared_ptr` to the old session.
* **Checks and uses are separated.** `alive` is read and the socket used after the
  mutex is released; `status` is tested and written by two threads that do not
  exclude each other; notices (201, 602, 603) are sent after the assignment they
  report, without the mutex.
* **The welcome.** A session can be written to from the moment it is in the maps.
* **Answers carry no request number.** Both sides rely on order: every request
  must be answered once, and a 201 does not say which status it confirms.
* **Progress.** A client may leave in the middle of anything, and must be released;
  one that does not read blocks whoever writes to it, the watchdog too.
* **Sends that fail.** Every caller ignores what `send_message` returns: the handler
  goes on, and "DM sent" is said of a message that could not be written.
* **Bytes, not frames.** A frame is written in two parts, each in a loop, by several
  threads that share a socket, and read in the same way.
* **Stopping.** `stop()` runs in a signal handler on top of the thread it stops; the
  client stops its `NetworkThread` while that may be anywhere.
* **The window keeps a copy** of a status that the server changes on its own.

`PROJECT.json` lists these hazards line by line, with the properties that would
show each going wrong, or the reason why none does yet.

### What makes each part correct

* Registry: the maps agree; nobody shares a connection, a name or an address with
  another user; a session belongs to the connection that its descriptor denotes.
* Threads: every request gets one answer, but for those that end the loop; strangers
  are refused; DMs go to the session that bears the name, broadcasts reach a receiver
  in order and once; nothing meant for a session overtakes its welcome; a connection
  that ends is released.
* Presence: a status is the one the server remembers in `manual_status`, which is the
  user's choice or, after a restoration, ACTIVE, or it is INVISIBLE; a choice to be
  INVISIBLE is not undone by anybody else; each automatic change is told, once; idle
  users are marked in the end; the last status a client is told is the one it has.
* Framing: a connection is a channel of whole frames as long as its writers exclude
  each other; a reader neither waits for what will not come nor takes part of a
  frame for one.
* Waiting: no circle of threads waits; the registry stands still only because of
  the client that is registering; a signal ends the server with its threads.
* Client program: a window only for a registered user, whatever arrives first; its end
  leaves no thread behind, raises no alarm and frees the name.
* Window: selector and remembered status agree unless a change is under way, and
  are the server's; each conversation can be seen.

## 2. The modules

| Module | Models |
|---|---|
| `Directory` | what the registry promises: a list of users online, in which no connection, name or address occurs twice; one user joins or leaves at a time |
| `ChatServer` | `server.cpp`: client threads, watchdog, registry, sessions, and the frames on each socket |
| `ChatServer_proofs` | theorems about `ChatServer`: types, registry, presence |
| `ChatServerWires_proofs` | who is written to, and when |
| `ChatServerMessages_proofs` | order, confirmation, one answer for each request |
| `ChatServerNotices_proofs` | the notices of the watchdog |
| `Channel` | what a connection promises: whole frames, in order, until it ends or is corrupted |
| `FrameStream` | `protocol.h`, `send_locked`, `send_response_bare`: a descriptor number, the connections it denotes one after the other, their bytes, writers and readers |
| `FrameStream_proofs` | the theorems about `FrameStream` |
| `ServerThreads` | `run`, `stop`, `main`, and every place where a thread of the server can wait |
| `ServerThreads_proofs` | the theorems about `ServerThreads` |
| `ClientSession` | `client/main.cpp`, `network.cpp`, `closeEvent`: the client's two threads and the server's at the other end, from connect to exit |
| `ClientSession_proofs` | the theorems about `ClientSession` |
| `ClientWindow` | `mainwindow.cpp`: the window, the two FIFO channels, and the server as one user sees it |
| `ClientWindow_proofs` | the theorems about `ClientWindow` |
| `MC…` | the instances for TLC |

The modules look at the same code through what they need of it and rest on each
other: `ChatServer` and the two client modules take frames for indivisible, which
`FrameStream` justifies by `Channel`; a send that waits is in `ChatServer` a step that
fairness does not ask for (`MayBlock`), in `ClientSession` a server thread that is
`held`, and `ServerThreads` shows who waits for whom; `FrameStream` lets nobody write to
a session before its welcome, which is `WelcomeFirst` of `ChatServer`; the frames that
`ClientSession` receives from strangers are those of `StraysAreLate`; `ClientWindow`
starts when `ClientSession` has made a window.

### ChatServer

A connection, the thread that serves it and the session this thread may create
are one element `c` of `Conn`: a thread registers at most once. `Fd` holds the
descriptor numbers; `sock[f]` is the connection a number denotes *now*, `fd[c]` the
number thread `c` was given. `Send(d, frame)` writes to `sock[fd[d]]`: to whom the
number of session `d` belongs now. It fails, and the caller goes on as if it had not,
if the number is closed or the client behind it has reset the connection (`SendFails`,
`broken`). A send to a client that is in `Deaf` may wait for ever (`MayBlock`).

A step of a thread ends where another thread can see or disturb it: at the mutex,
at a write of a field that two threads write, at a send. `pc` names these places:

| Code | Actions |
|---|---|
| `run`: accept | `Accept` |
| `handle_register` | `RefuseRegister`; `RejectRegister` then `SendRefusal`, `Register` then `Welcome` (the mutex is held in between) |
| the start of the other handlers | `RefuseStranger`, `RefuseMalformed`, `Begin` |
| `maybe_restore_activity`, `touch_activity` | `Restore` (`status`), `Remember` (`manual_status`), `NotifyRestored`, `Touch` |
| `handle_message_general` | … `CollectTargets`, `SendNext` for each target |
| `handle_message_dm`, `handle_get_user_info` | … `LookupUser`, `CheckAlive`, `Deliver` |
| `handle_change_status` | … `SetStatus` (`status`), `Remember` (`manual_status`), `Touch` |
| `handle_list_users` | … `Touch`, `ListUsers` |
| `handle_quit`, the default branch | `HandleQuit`, `RefuseUnknown` |
| the send of an answer | `Reply` |
| end of stream, a frame above 16 MB | `EndOfStream`, `DropTooLong` |
| `remove_session`, `close` | `RemoveSession`, `CloseSocket` |
| `watchdog_loop` | `WakeUp`, `CheckIdle`, `Mark`, `EndScan`, `Notify` |
| clients and time | `HangUp`, `Reset`, `Elapse` |

`status` and `manual_status` are plain fields written by two threads: a data race.
The model takes the outcomes an enum-sized word can have, the values written, in
every order. `idle[c]` stands for "`idle_timeout_sec_` has passed since
`last_activity`": `Elapse` sets it at any time, `Touch` resets it. `marks` and
`restorations` are history variables, which count what `Mark` and `Restore` do.

Data are reduced to what the handlers look at: a request has a type, whether it
parses, the name and the status in it. A frame on the wire carries its code, and,
for the properties only, who wrote it for which session and from which request.

### FrameStream

`pipe[c]` holds the cells written to connection `c` and not read; a cell says which
frame it belongs to and where in it. `SendLocked`/`Lock`/`WriteCell`/`WriteFails` are
`send_locked` around `send_message` around `write_exact`; `SendBare` is
`send_response_bare`, to a connection without a session, or to a registered one whose
client is in `Rude`: it sends what the server answers bare, a type it does not know (line
208) or another `REGISTER`, which does not parse (296) or has no name (304).
A writer writes to whichever connection the number denotes *now*. `Receive`, `Refuse`
and `EndOfStream` are the outcomes of `recv_message`. `read_exact` keeps what it has
got so far to itself, so that cells stay in the pipe until it has all it wants: a
partial read is the pipe being shorter than a header or a frame.

`mixed[c]` is a history variable: frames have been written to `c` without a mutex in common.
It happens in two ways. A *registered* client, a rude one, is answered bare while a
broadcast is being written; and a writer of an old session goes on after its number has
passed to `c`. The comment at `server.cpp:56` says of the bare send: *"Only safe when we
know exactly one thread writes to this fd"*, which the default branch and `handle_register`
do not know. `WritersExclude` says that there is no third way, and `ChannelSpec` that
nothing but mixing breaks a frame.

### ServerThreads

| Code | Actions |
|---|---|
| `run` | `Listen`, `Start` (`running_ = true`), `StartWatchdog`, `Accept`, `Spawn`, `LeaveLoop` |
| `stop` | `StopBegins`, `JoinWatchdog`, `CloseSockets`, `JoinClients`; entered by `Signal` (the handler, anywhere in `run`) and at the end of `main` (`AfterRun`) |
| `handle_client` | `Loop`, `Request`, `EndOfStream`, `CleanUp` |
| the handlers | `Register` (keeps the mutex until its frame is sent), `FindSession`, `CollectTargets`, `LookUp`, `HandleQuit` |
| `send_locked` / `send_response_bare` | `LockSend`, `Send` |
| `watchdog_loop` | `Loop`, `MarkIdle`, then sends |
| clients | `Drain` (reads a frame), `HangUp` |

`dest[t]` is the session thread `t` writes to now and `todo[t]` those it writes to next.
`unread[c]` counts frames, up to `Room`; a send to a full connection waits. Handlers
that look the same from here share a path: `"fan"` is a broadcast, a DM with its
confirmation and the watchdog's notices. The main thread is in `stop()` *instead of*
in `run()` (`resume` says where it goes back to), as a handler runs on top of the
interrupted thread; Linux gives a signal to the main thread if it can.

### ClientSession

`gui` says where the main thread is, in `main()`, the event loop, a send of a slot,
`closeEvent` or `~NetworkThread`; `reader` where `NetworkThread::run` is; `server` where
`handle_client` is. The connection holds `Room` frames in each direction. `Push` is
everything other threads of the server send, and the 603: broadcasts and DMs (`"plain"`),
the watchdog's 602 (`"notice"`), frames that are too long. As `StraysAreLate` allows, such a
frame may be meant for the last owner of the descriptor number and come before the answer to
REGISTER. `Accepted` is what `main()` tests: any `ServerResponse` that says it is
successful, so a stray 602 too; `misled` remembers that this has happened. A server thread
that waits for others, in a broadcast or DM to a client that does not read or for the
registry's mutex, is `held` (`HoldUp`, `LetGo`). `StopFlag` and `StopReading` are the two
lines of `stopThread`. `wait(2000)` returns without the thread only when the thread is
blocked: a thread that can run is taken to end within two seconds. A response that does not
parse, after which `main()` opens the window (`client/main.cpp:91`), is sent by nobody.

### ClientWindow

A slot of the window is one step, as Qt runs them one at a time. `toClient` is the
socket and the queue of signals together, as both keep the order. `OpenTab` is
`getOrCreateDmTab`, which shows a page only when it creates it; `CloseTab` removes
the tab's *label* from the map, as the code does. A branch of `onServerResponse`
that tests for 602 inside the cases for 201 and 603 (lines 495-500) can never run
and has no counterpart. In the server part a handler serves one request after the
other and the watchdog marks; each assigns in one step and sends word of it in another
(`due` and `HandlerSends`, `marked` and `NotifyInactive`), so that the frames of two
assignments may be in the other order; what else may happen inside a request is the
subject of `ChatServer`. `crossed` is a history variable: it becomes true when a choice
is made, or a 602 or 603 handled, while an earlier choice is still unconfirmed, and
when one of the server's threads assigns a status before the other has sent word of
its own. Messages are answered here
by one frame to this user; a 404 and a 202 are the same to the window.

## 3. The runs

All with `CHECK_DEADLOCK FALSE`: clients may stop sending, the programs end, and with
bounded requests every behaviour ends in a state without a next step.

| Run (cfg) | Instance | Checks |
|---|---|---|
| `messaging` | 3 connections, 2 descriptors, 2 names, 2 addresses; one client joins, sends DMs and broadcasts (3 requests), the two others ask for the same name and may reset their connections | `RegistryConsistent`, `DescriptorOwned`, `DirectorySpec`, `WelcomeFirst`, `DmAddressee`, `DmConfirmed`, `InOrderOnce`, `StraysAreLate` |
| `requests` | 1 connection against the watchdog, `FairSpec`; any 3 of all 17 requests: malformed ones, unknown names, an invalid status, a frame too long, messages to oneself; the user falls idle again and again, need not read, leaves at any moment and may reset the connection | `TypeOK`, `OneAnswer`, `RegisteredFirst`, `RememberedOrInvisible`, `NoticesBalance`, `ChoiceKept`, `DepartedReleased`, `IdleMarked` |
| `frames` | a number used by 2 connections, 3 writers (4 frames), a header of 2 cells, payloads of 0, 1 and 2 cells, limit 1; the first client rude, the second not | `TypeOK`, `ChannelSpec`, `LimitKept`, `RestComes`, `WritersExclude` |
| `threads` | 2 connections, watchdog and main thread, room for 1 frame, `OrdinarySpec`; requests without a bound | `TypeOK`, `NoWaitCycle`, `RegistryStall`, `AllJoined`, `Served`, `StopsOnSignal` |
| `session` | room for 1 frame each way, 2 acts of the user besides the timer's refresh and those that answers cause, 2 frames unasked or astray, the server's thread held up at any time, `FairSpec` | `TypeOK`, `NoFalseAlarm`, `ReaderEndsFirst`, `WindowRegistered`, `NeverStuck`, `SessionReleased` |
| `window` | 1 peer, 3 actions of the user that send, 2 events of the server's own | `TypeOK`, `ChoiceAgrees`, `StatusReflected` |

Why the bounds are enough. The hazards of the registry need a descriptor number used
twice (three connections, two numbers), two users wanting one name or one address,
and a third thread that still holds a session of the first. Those of presence, and a
request's answers, need one user's thread against the watchdog: no other thread
writes the fields concerned. Three requests of one client are the least with which
it can register, do something and do another thing. A frame is broken by two
writers, or by one writer and a number that passes on; a header that can be cut in
two and payloads below, at and above the limit give every place where a read or
write may stop. Waiting needs two client threads that write to each other's clients,
the watchdog and the main thread; with room for one frame every second send waits.
The client's hazards need one frame in each direction more than there is room for.
Those of the window need two changes of status under way at once. All the
safety properties, and both refinements, are proved for all sizes as well (section 4);
the part of `StraysAreLate` about the watchdog's notices only there, as nobody falls idle
in `messaging`.

`MaxReads`, `MaxSends`, `MaxAsks`, `MaxActs`, `MaxPushes`, `Room`, `Sleepers` (the users that
may fall idle; without any, the watchdog's empty rounds are left out), `Resets` (the
connections that may be reset) and the one signal of `ServerThreads` are bounds of the
model; `Deaf` is no bound but an assumption, and the larger it is the less the server
is promised. `Symmetry` permutes descriptor numbers, addresses and the two connections
that ask for the same, of which the model singles out none; the runs that check
liveness use no symmetry.

**Fairness.** Threads that can run do run: weak fairness for threads that wait for
nobody's mutex, strong fairness for client threads (and the server's thread in
`ClientSession`). Strong, because a mutex, or room in a buffer, is there only between
others' uses of it: the critical sections are short and the watchdog sleeps ten
seconds between rounds, so that a waiting thread gets its turn although `std::mutex`
promises no order. In `ChatServer` nothing is asked of clients: none has to send, to
read or to close. What the code does then is wait: fairness asks for a thread's step, or
the watchdog's, only while it is not in a send to a client of `Deaf` that is still there
(`ThreadStep(c) /\ ~MayBlock(…)`). So `IdleMarked` speaks of behaviours in which nobody
is held up like that for ever (`[]<>~HeldUp`): a watchdog in a 602 to a client that
does not read (`server.cpp:610`) marks nobody any more. `DepartedReleased` needs no such
condition in `requests`, where the only client to write to is the one that has gone.
`OrdinarySpec` of `ServerThreads` adds what the repository's own client
does: its `NetworkThread` reads all it is sent, and it registers as soon as it is
connected, or closes if it is refused (`client/main.cpp:70-106`). Without the first a
client that does not read stops who writes to it; without the second a signal does
not end the server, which is the run `clean_shutdown`. In `ClientSession` the user need
not do anything, and nothing says that a server thread held up by other clients is ever
let go: `NeverStuck` and `SessionReleased` are under `[]<>~held`.

### What the code does not keep

Six runs state what the repository's documents say and TLC refutes it.

* `status_told` — *"El cliente siempre reflejará el status que el servidor le tenga
  asignado"* (Proyecto.md:81). `SetStatus` assigns, the watchdog marks the user
  (it tests `last_activity` before `Touch`) and sends its 602, and only then is the
  201 sent: the last word the client has is its choice, the status is INVISIBLE.
* `dm_reaches` — *"solo lo recibe el destinatario"* (docs/IMPLEMENTATION.md:71). Between
  `CheckAlive` and `Deliver` the addressee leaves, its descriptor is closed and
  accepted again, and the DM is written to the new connection. `StraysAreLate` shows
  that this is the only way for a frame to go astray, and that it never happens to an answer.
* `stray_welcome` — *"De lo contrario, el servidor envía una respuesta que el cliente usa
  para desplegar un mensaje de error"* (docs/instructions.md:20). The same race with the
  watchdog's 602 (`server.cpp:609-613`): the new owner of the number reads it before the
  answer to its REGISTER, `main()` takes it for the welcome (`client/main.cpp:89-101`) and
  opens the window of a user whose registration is refused. `WindowRegistered` says
  that no other frame does this.
* `status_mirrored` — the same sentence of Proyecto.md, for the window alone: choosing
  DO_NOT_DISTURB and ACTIVE again before the 201 sends one request, and the 201
  is taken to confirm what the selector shows by then. `StatusReflected` shows that
  crossings of this kind are the only cause on the window's side.
* `conversation_visible` — *"una pestaña por conversación directa"* (README.md:125): after
  its tab has been closed, a conversation is continued on a page without a tab.
* `clean_shutdown` — *"Setup signal handlers for clean shutdown"* (`server/main.cpp:36`):
  `stop()` shuts down the sockets of sessions only and joins every client thread. A
  connection that has not registered sits in `recv`, and the server waits for it. The
  run `threads` shows that clients which register and read are all it takes.

What the models show, or had to be told, without a run of its own:

* A signal between the installation of the handler and `running_ = true` is forgotten, and
  the accept loop then spins on a closed listener (`Signal` with `resume` before `Start`;
  `StopsOnSignal` leaves it out).
* A client that does not read keeps `stop()` from ending in the join of the watchdog or, if
  it is being registered, every thread that needs the registry (`RegistryStall`, `Served`);
  the watchdog, once in a 602 to it, marks nobody any more (`HeldUp`).
* docs/IMPLEMENTATION.md:98 says that the network can be called *"sin bloquear la UI"*. The
  GUI thread sends with a blocking send and waits for ever when nobody reads the other
  end: when the `NetworkThread` has given up over a broadcast that is above 16 MB with the
  sender's name (`Deaf` in `NeverStuck`), and when this client's server thread waits in a
  broadcast or DM to *another* client that does not read (`held`).
* docs/IMPLEMENTATION.md:42-43 and 55-56 promise that asking for the list or for a user's
  data brings an inactive user back; the handlers only touch the activity time
  (`server.cpp:491`, `528`; `FirstStep`).
* docs/IMPLEMENTATION.md:117 answers malformed protobuf with a 400. A QUIT that does not
  parse ends the loop without an answer (`server.cpp:563-566`), and so do a stranger's QUIT
  and a frame that is too long (`LeftInSilence` in `OneAnswer`).
* docs/IMPLEMENTATION.md:121 says that a handler ends when a write fails. Every result is
  ignored (`server.cpp:41`): the handler goes on, and a DM that could not be written is
  confirmed (`server.cpp:436-441`; the cases of `DmConfirmed`).
* docs/protocol_standard.md:107 asks for header and payload *"in one write"*; `send_message`
  writes twice (`protocol.h:115-116`), which is where two writers mix (`FrameStream`).
* After a restoration the status is ACTIVE, and remembered as such, although the user may
  have chosen DO_NOT_DISTURB (`server.cpp:257-258`; docs/IMPLEMENTATION.md:55-57 says so):
  `RememberedOrInvisible` speaks of what the server remembers, not of the user's choice.

## 4. The proofs

For any sets of connections, descriptors, names, addresses and peers, any requests and
any room in the sockets. The only assumptions are the modules' `ConstantsOK`: the
special values are not elements of the sets, the bounds have their types.

| Module | Theorem | States |
|---|---|---|
| `ChatServer_proofs` | `TypeCorrect` | `Spec => []TypeOK` |
| | `RegistryAlwaysConsistent` | `Spec => []RegistryConsistent` |
| | `SessionsOwnTheirDescriptors` | `Spec => []DescriptorOwned` |
| | `ImplementsDirectory` | `Spec => DirectorySpec` |
| | `StatusAlwaysRemembered` | `Spec => []RememberedOrInvisible` |
| | `ChoiceAlwaysKept` | `Spec => ChoiceKept` |
| `ChatServerWires_proofs` | `WelcomeAlwaysFirst` | `Spec => []WelcomeFirst` |
| | `StrangersOnlyRefused` | `Spec => []RegisteredFirst` |
| | `DmForItsAddressee` | `Spec => []DmAddressee` |
| | `StraysAlwaysLate` | `Spec => []StraysAreLate` |
| `ChatServerMessages_proofs` | `AlwaysInOrderOnce` | `Spec => []InOrderOnce` |
| | `DmAlwaysConfirmed` | `Spec => []DmConfirmed` |
| | `AlwaysOneAnswer` | `Spec => []OneAnswer` |
| `ChatServerNotices_proofs` | `NoticesAlwaysBalance` | `Spec => []NoticesBalance` |
| `FrameStream_proofs` | `TypeCorrect` | `Spec => []TypeOK` |
| | `ImplementsChannel` | `Spec => ChannelSpec` |
| | `LimitAlwaysKept` | `Spec => []LimitKept` |
| | `RestAlwaysComes` | `Spec => []RestComes` |
| | `WritersAlwaysExclude` | `Spec => []WritersExclude` |
| `ServerThreads_proofs` | `TypeCorrect` | `Spec => []TypeOK` |
| | `NeverAWaitCycle` | `Spec => []NoWaitCycle` |
| | `StallsOnlyForItsClient` | `Spec => []RegistryStall` |
| | `AllAlwaysJoined` | `Spec => []AllJoined` |
| `ClientSession_proofs` | `TypeCorrect` | `Spec => []TypeOK` |
| | `ReaderAlwaysEndsFirst` | `Spec => []ReaderEndsFirst` |
| | `WindowAlwaysRegistered` | `Spec => []WindowRegistered` |
| | `NeverAFalseAlarm` | `Spec => []NoFalseAlarm` |
| `ClientWindow_proofs` | `TypeCorrect` | `Spec => []TypeOK` |
| | `ChoiceAlwaysAgrees` | `Spec => []ChoiceAgrees` |
| | `StatusAlwaysReflected` | `Spec => []StatusReflected` |

**Types and the registry.** `TypeOK` is not inductive: `SetStatus` needs to know that the
request in hand carries a valid status, and `Touch` where to go next. `RequestFits` says
what request a thread holds at each place, and `Typed`, the two together, is
inductive. `RegistryConsistent` alone is not inductive either: that `remove_session`
removes the caller's *own* session, and that `Register` uses a free descriptor,
depend on where the threads are. `Placed` says that a thread between accept and
close owns its descriptor, `SessionsPlaced` that a session's thread has not got
past its clean-up; with them the invariant `RegistryInv` is inductive. Most steps
touch neither; `NextQuiet` proves that they are `Quiet`, so that only accept,
register, remove and close need a proof of their own. The refinement maps the
three maps to the set `Online`; `Register` is a `Join`, `RemoveSession` a `Leave`, and
all other steps stutter.

**Presence.** `StatusWriters`: only `Register`, `Restore`, `SetStatus`, `Remember` and `Mark`
write a status. `RememberedOrInvisible` is inductive with the types because its formula says
what is so between the two assignments of a change; `ChoiceKept` needs `RestoresOthers` there:
a thread that has decided to restore, and not yet done so, does not do it to a user who chose
INVISIBLE, as only this thread writes choices.

**Who is written to.** `OwnSession` says that a thread's session stays under its own
descriptor until the thread removes it, `Known` that whoever is in a thread's `targets`
or in the watchdog's lists has been *introduced*: it has a name and its welcome has been
sent. Under it lies the mutual exclusion of `sessions_mutex_`: a thread at `welcome` or
`refuse` holds it, and so does the watchdog while it scans, so that nobody copies a session
out of the maps before its welcome. `WiresInv` says what this means on the wires: the
introduced have a welcome on their wire, unless their connection was reset before it could
be sent (and then nothing else can be), and the theorems hold. For what goes astray,
`Owned` says that a number denotes a connection whose thread was given that number: an
addressee whose number denotes somebody else is not between accept and close
(`Placed`), has been introduced, hence started, and so has closed it. `Strays` is
kept because an ended thread does nothing and no thread changes its number
(`NumberKept`).

**Messages.** For order, `Numbered`: a message bears the number of its thread's current
request, or a smaller one if the thread has yet to write to that receiver
(`Ahead`). For confirmations, `Confirmed`: "DM sent" is in hand, or on a wire, only if
a session of that name has been written to, is no longer alive, or is behind a connection
that has been reset (`Settled`). For answers, `AnsweredOnce`: the answers to request `k` are
one frame if `k` is done, and none before (`AnswersTo` is a set of positions, shown to be
empty or a singleton, which gives the cardinality of `OneAnswer`), with the two exceptions
that the code makes: the request that ends the loop in silence (`LeftInSilence`) and the
answers that a reset connection refuses (`HadAnswer`). A broadcast
needs `OwnCopy` for this: no target but the sender's own session is
written to the sender's connection, although targets may be long gone and their
numbers taken again.

**Notices.** `Balanced` is an exact account for each user whose connection has not been
reset: the 602s told, and one if it is in `to_notify`, are its `marks`; the 603s told, and
one if its thread is past a restoration and has not said so, are its `restorations`. Each
step but marking, restoring and the two notices is `Level`; `MarkedOnce` says that a round
marks nobody twice, so that a set is enough for `to_notify`.

**Framing.** `LimitKept` and `RestComes` speak of the reader's next frame only; what they need is
that *all* the cells of a connection are those of whole frames one after another.
Cells are cut from the front and appended in the middle of frames, so this is not stated by
recursion over the pipe but by a witness: a function `start` that says where each frame
begins (`Layout`). `Laid` says that the pipe holds the cells of the frames after the first
`Len(got[c])`, `Ends` that it ends as far in the last one as its writer has come, and
`Streamed` that there is such a `start` as long as the connection is not mixed. Reading a
frame leaves `start` alone, beginning one extends it by an element, and writing a cell fits
at the next place. That one writer at most is in the middle of a frame is `Ordered`: who writes
without being bare holds the `send_mutex`. Each connection then implements its `Channel`:
`ChannelSend` and `ChannelReceive` are the steps that are not stutters. For
`WritersExclude`, `Excluded` says that a bare answer is sent by a session's own thread,
that others find a session in the registry only, and that a client that is not rude has no
bare answer coming while it is registered.

**Waiting.** `Held` says where the holder of each mutex is: `sessions_mutex_` is kept over a
send only by a thread that sends to its own client, a `send_mutex` only by a thread
that needs no other mutex. `NoCircle` finds in each set of threads one that waits for
none of the others: the holder of a `send_mutex`, if there is one, else the holder of
`sessions_mutex_`, else anybody but the main thread, which nobody waits for. `Newborn`
says that a thread is started once, although `stop()` may come before its start;
`Joined` gives `AllJoined`.

**The client.** `Ending` ties the main thread's way through `stopThread` to the place of the
`NetworkThread`; `WelcomeMeansSession` follows the welcome, and whatever else main() would
take for one, from the server's queue to the window: a 201 or a 603 comes to registered
users only, so that the 602 is the one frame that can mislead it (`misled`);
`Truthful` says that a thread that fails with `running_` set has met
the end of the stream. `ChoiceAgrees` is inductive with the types: a pending change
is a request or a 201 in one of the two queues. `StatusReflected` looks at two empty
queues and needs `InStep` for what is in them before. As long as nothing has crossed, a
status that is asked for is the one the selector shows (`Asked`); one of the server's two
threads at most has word of a status to send, and it is word of the status the server keeps
(`Kept`); and if neither has, the last of the signals that tell of a status means that
status, or there is none and the window shows it already (`Reflects`).

**Only model-checked.** Liveness under fairness (`DepartedReleased`, `IdleMarked`, `Served`,
`StopsOnSignal`, `NeverStuck`, `SessionReleased`), which the prover cannot express, and what
does not hold: the properties of the six `violation` runs of section 3.

## 5. Not modelled

* The text of messages, the contents of lists and of user data, logs, dialogs, style
  sheets, the order of tabs, the command line of both programs.
* The generated protobuf code: requests and answers are records of the fields that
  are looked at, and a request that does not parse is one. That protobuf refuses 2 GB,
  so that the length is never cut to 32 bits, is not shown.
* A client that vanishes without a word: `recv` and `send` have no timeout and the sockets no
  keepalive (`protocol.h:77`), so that its thread, name and address stay. `HangUp` is a
  close, which the server sees as the end of the stream, and `Reset` an error.
* `stop()` in `ChatServer`: its `shutdown` and `close` of the sockets and `alive = false` of
  sessions that stay in the maps (`server.cpp:154-158`). `ServerThreads` has it, without
  the registry.
* The locks of `malloc` and of the output streams: the main thread may hold one when the
  signal interrupts it, and then joins threads that allocate and log before they end.
* A second signal during `stop()`, a signal delivered to another thread than the main
  one, and the undefined behaviour of a handler that interrupts `emplace_back`.
* A connection is used once: `client_threads_` grows by a thread for each, and
  nothing but memory shows it.
* `send_server_response` and `send_to_client` (`server.cpp:271-287`), which nobody calls,
  and `get_local_ip`: the server keys its map by the address it sees itself.
* The build.

## 6. Plan

Done: registry, threads and presence (`ChatServer`); the window; the byte stream
(`FrameStream`); blocking and shutdown, which share the threads that wait and became one module
(`ServerThreads`); the client program (`ClientSession`); theorems for every safety
property and both refinements that hold, in all five modules.

Left:

1. An abstract specification of delivery, a channel from each sender to each receiver, of
   which `InOrderOnce`, `DmAddressee` and `DmConfirmed` are consequences, and the proof that
   `ChatServer` implements it.
2. A second signal during `stop()` in `ServerThreads`.
