# Exec02: TLA+ models, model checks and proofs

Exec02 is a collection of Windows and Boost.Asio programs. It has no single
`main`: the parts that carry logic of their own are a TCP **chat** (server,
client and the message class they share), a TCP **echo** server with its
client, three **bouncing-face** console programs with worker threads, an
asynchronous **logger**, a **UDP echo** and a **daytime** server, a **word
shell**, and C containers and algorithms.
This directory models those parts, checks the models with TLC on small
instances and proves the main results with TLAPS for every instance.
`PROJECT.json` lists the components, runs, mutants, hazards, theorems and, for
every definition that models code, the lines it models.

## 1. Inventory

| component | source | state | operations | status |
|---|---|---|---|---|
| chat message | `MyChat/MyChatMessage.hpp` | four header characters, body length | `body_length(n)`, `encode_header`, `decode_header` | `ChatMessage` |
| chat server | `MyChat/MyTCPChatSrv01.cpp` | room (participants, recent messages); per session a read buffer, a write queue, outstanding read and write; the acceptor | `do_accept`, `join`, `leave`, `deliver` (room and session), `do_read_header`, `do_read_body`, `do_write` | `ChatServer`, promise in `ChatRoom` |
| chat client | `MyChat/MyTCPChatCli01.cpp` | main thread, io thread, posted work, socket, write queue, outstanding operations | getline loop, `write`, `close`, `do_connect`, `do_read_header`, `do_read_body`, `do_write`, `join` | `ChatClient` |
| chat as a whole | the three files above | both of the above and TCP between them | | `ChatSystem` |
| TCP echo | `MyChat/MyTCPSrv01.cpp`, `MyTCPCli01.cpp` | session state and buffer, two in-progress flags; the client's progress | `handle_accept`, `start_operations`, `handle_read`, `handle_write`, `do_read`, `do_write`; connect, write, read | `TcpEcho` |
| bouncing faces | `Project1/MThread01.c`, `Main01.c`, `MThread02.c` | two mutexes, `threadNr`, `threadDeleteNr`, threads; the console, the place and direction of each face | keys a, c, d, q; shutdown; `BounceProc` | `Bounce` (threads), `BounceScreen` (drawing) |
| logger | `Project1/MLogger.h`, `MLogger.cpp` | stream, priority queue, pause flag, writer thread | `start`, `init`, `pause`, `resume`, `endl`/`log`, `handleLog` | `MLog` |
| UDP echo | `Project1/udpclient.c`, `UDPServer.c` | the server's buffer and last sender; the client's target address and port, its prompt | address and message prompts, `sendto`, `recvfrom` on both sides | `UdpEcho` |
| daytime server | `Project1/server.cpp` | acceptor, connections, UDP socket, `remote_endpoint_` | `handle_accept`, `handle_write`, `handle_receive`, `handle_send` | `Daytime` |
| lock-free example | `MyUtil/LockFreeMain.cpp` | two counters, the stack, the flag | `producer`, `consumer`, `main` | `LockFree` |
| list and events | `Project1/My{List,Queue,Stack,Events}.c` and headers | `size`, `head`, `tail`, the elements, the events' blocks | `list_init`, `list_ins_next`, `list_rem_next`, `list_destroy`, the queue and stack calls, `receive_event`, `process_event` | `MyList`, `MyEvents` |
| circular queue | `MyUtil/MyCircleQueue.c`, `TestCircle.c` | array, front, rear, count, capacity | init, insert, remove, print, dispose, the menu | `CirQue` |
| word shell | `Project1/FileTransMain.cpp` | a list of words used as a stack | `add`, `madd`, `remove`, `exit`; the search `kmp` | `WordShell`, `Kmp` |
| algorithms | `MyUtil/MySort.c` | the array, the running calls | `issort`, `partition`, `qksort` | `MySort` |
| UDP service loop | `Project1/MyService.c` | a socket, a run flag | receive and call back; the other functions are stubs | not modelled |
| strings, times | `MyUtil/MyString.c`, `MyUtil.cpp` | none | formatting | not modelled |
| exercises | the other files of `Project1` and `MyUtil` | none that lasts | | not modelled |

**How they interact.** Only the chat and the two echo systems consist of
processes that talk to each other: the first two through TCP connections, which
deliver bytes in order until one end closes or resets, the third through
datagrams, which may be lost, doubled, reordered or rejected. Inside the chat server everything runs on one
thread; sessions meet in the room, whose `deliver` calls every session's
`deliver`. Inside a chat client two threads share only the `io_context`'s
queue of posted work. The threads of the bouncing-face programs share mutexes
and unprotected counters, the logger's callers and its writer a mutex and a
condition variable. `process_event` calls a function of its caller, which may
use the same queue. The word shell keeps its words in the same list. The daytime
server's halves share their thread and nothing else.

**What is hard.** In the chat: completions in any order, a write queue whose
emptiness stands for "no write outstanding", buffers owned by operations in
flight, a peer that vanishes inside a frame, two independent failure paths for
one session, objects that live as long as some handler refers to them, a
client whose close overtakes its own queue and whose io thread may return
before main is done with it. In the echo: partial reads and writes, readiness
that is not. In the console programs: Windows mutexes that
are abandoned rather than released, handles closed under running threads,
counters read and written without a lock. In the logger: lost wake-ups, a
check-then-create without the lock, a stream that all callers share without one,
members that are never initialised. In the list: pointers that must agree after every sequence of calls, two allocations of
which the second may fail, a callback between the removal of an event and its
release. In the UDP echo: a server that always sends all of its buffer, to
whoever it heard last, also when it heard nothing; a client that waits without a
limit, takes any datagram for its answer and the datagram's sender for its next
target, and whose tests of `size_t` results miss every error. In the daytime server: a
member that the next receive overwrites while an answer is outstanding, an error
that ends one half. In the small programs: the drain after the flag, fields that
nobody initialises, loops that trust a count.
`PROJECT.json` names each of these hazards at its line, with the properties
that cover it.

**What makes each part correct**

- message: the length that was set is the length that is decoded; no header
  yields a body longer than the buffer;
- server: every session is written one unbroken run of the room's messages in
  the room's order; one write at a time and none forgotten; reads stay in step
  with frames; nobody waits for somebody else's slow peer; a session whose peer
  is gone is released;
- client: a line typed is sent once and in order, or kept; a stalled queue means
  a closed socket; the process ends after its input;
- system: rooms and screens show what was typed, and a line that was sent is
  shown, unless a connection ends; each side is what the other's module takes
  its peer for;
- echo: bytes are conserved in order; one outstanding operation; each request
  is answered;
- faces: threads run until told to stop; one writer on the screen; keys are
  answered; a face that leaves the screen comes back, and leaves no trail;
- logger: no message is printed twice, lost, or used after it is deleted; a caller's
  text holds its lines; the message on top is printed while a writer runs unpaused;
- list and events: from `head`, `next` leads through what was inserted, in its
  place, to `tail`; events are dispatched in the order of the queue with the
  contents they were given; each block is released once;
- UDP echo: an echo to one of the repository's clients holds nothing of somebody
  else's (one to a stranger may, see the findings); a client takes the answer to its
  last message; a wait ends unless something went astray;
- daytime: each answer goes to the one who asked; nobody waits for ever;
- lock-free example: all that was produced is consumed;
- circular queue: through every wrap-around, first in, first out;
- word shell: the words that were typed, in order, and no block lost or freed
  twice;
- algorithms: sorted stably; every place of a pattern found.

## 2. The modules

```
ChatMessage <- ChatWire <- ChatServer <- MCChatServer      ChatRoom (abstract)
     |            |  \---- ChatClient <- MCChatClient          ^
     |            \------- ChatSystem <- MCChatSystem          | refinement
     |                     (instances of ChatServer, ChatClient)|
     |  ChatMessageProofs <- ChatServerProofs -----------------/
     |        |  \---------- ChatClientProofs
     |        \------------- ChatSystemProofs
     |                     (instances of ChatServerProofs, ChatClientProofs)
     |
     \-- Kmp, MySort <- MCFunctions <- MCPrograms
MyList <- MyEvents <- MCPrograms
CirQue, LockFree, BounceScreen <- MCPrograms
TcpEcho, Daytime <- MCServers
MyList <- WordShell <- MCServers
Bounce, MLog, UdpEcho                 (checked as they stand)
BounceProofs     of Bounce, BounceScreen
MyEventsProofs   of MyList, MyEvents, WordShell
ProgramsProofs   of CirQue, LockFree, MLog, UdpEcho, Daytime
TcpEchoProofs    of TcpEcho
```

`MCFunctions`, `MCPrograms` and `MCServers` hold several small programs side by
side: `program` says which one a behaviour is of, and the variables of the
others keep one initial value. The state spaces add up and do not multiply, and
each property says something about its own program only.

A definition bears the name of the function it models where there is one.
Definitions introduced as mutants stand just before the definition they are a
wrong version of; they are used in no specification.

**ChatMessage** is `class chat_message`. A header is four characters, each a
digit or one of the classes that `strncat_s` and `atoi` tell apart (blank,
minus, plus, NUL, other). `encode_header` is `sprintf_s` with `"%4d"`,
`decode_header` the copy with `strncat_s`, `atoi`, and the comparison in
`size_t`, in which a negative number is a huge one. The constant `destsz` is
the size given to `strncat_s`, see the finding below.

**ChatWire** is the stream as the code cuts it: a header unit, followed by a
body unit unless the length is zero. Asio's `async_read` completes only when
all bytes asked for are there, so a unit is the grain of the model; a
connection may end between any two units, that is inside a frame.

**ChatServer** has one action per completion handler. The program is
single-threaded, so a handler is atomic. `rd` says which `async_read` of a
session is outstanding, `wr` whether an `async_write` is, and the handlers
restart them as the code does. `Accept` includes `start()`, `join` and the replay of
`recent_msgs_`; `ReadBody` includes the whole `chat_room::deliver`. The
peers are arbitrary: they connect, send good and bad frames and go away at any
time, losing any tail of what they sent. The ghosts `history`, `sent` and `first`
record what the room was given, what was written to a session, and where in
the history its messages begin.

**ChatRoom** is the promise, without sockets, queues or handlers: a log; a
member that joins is owed the newest messages and all that follow until it
leaves, and gets them one by one in order. `ImplementsRoom` maps the log to
`history` and what is owed to the messages written and queued.

**ChatClient** has the actions of two threads. `posted` is the queue that
`boost::asio::post` fills from the main thread. A write takes two steps, since
`close()` may run after the bytes have left and before the handler does. The
io thread ends for good when nothing is posted or outstanding; what is posted
later stays there, as in the code. The server is arbitrary.

**ChatSystem** composes the two: each of its actions is an action of
one side, or of both where bytes, a connection or its end pass between them.
No code is modelled a second time. A server socket closes when the last
reference to its session is gone (`Released`). The ghost `origin` has, for every
message of the room, the client whose session posted it; `PostedBy` counts them.
`SidesConform` says that the composition is a behaviour of either module alone:
the arbitrary peers of **ChatServer** and the arbitrary server of **ChatClient**
allow for the real ones.

**TcpEcho**: `third_party_lib::session` and `connection` with the blocking
client. A byte is its position in the request, so that losing, repeating or
reordering shows. Reads and writes are partial, readiness may be false.

**Bounce**: one module for the three programs, which differ in their keys and in
how a thread leaves its loop (`program`). A mutex is its owner; a wait on an
abandoned one succeeds, and `ReleaseMutex` by a thread that is not the owner does
nothing. `++` and `--` of the counters are a read and a write, and what 'd' does
(the test, the number of the thread to delete, the release) and what a thread does about
it (`Check`, `Compare`, `Matched`) take a step for each access. What is drawn is left
to the next module.

**BounceScreen**: a turn of `BounceProc` blanks the face's old place if the
face is still there, draws it and moves it. One turn is one action, because
`OneWriter` of module `Bounce` says that nobody else writes meanwhile. The
console is a function from cells to characters and one to attributes; a call
with a place outside of it fails without effect. The three programs differ in what
they read and write where the attribute is meant (`drawing`). The thread's number is
read twice through a pointer to the counter, so shape and colour may
come from different numbers.

**MLog**: what a function does under the lock is one action. `isPause` and
`logWriter` start with any value, because no constructor sets them. The stream `os` is
not under the lock, so that inserting is two steps, `os.str()`, the allocation of
the message, the push and `os.clear()` one each, and other callers come in between. Two callers in `os` at
once are a data race: afterwards the text may be any, and the process may end
(`Crash`). Of a text it is kept whose insertions it holds; `os.clear()` takes none of
them out. The priority queue compares pointers, so that blocks are numbers, the highest is on
top, and a block that was deleted is used again.

**MyList** has the memory of the list explicitly: an element is an address
with `next` and `data`, `malloc` returns any free address, so that addresses
are used again. The ghost `order` is the sequence the calls ask for; `Linked`
compares the pointers with it. A call that returns -1 changes nothing and is a
stuttering step.

**MyEvents** is `receive_event` and `process_event` on that list. `process_event`
is two actions, around the call of `dispatch`, between which anything may
happen to the queue: further events, nested processing (to a depth of
`MaxDepth`), destruction. Since a `Queue` is a `List`, insertions and removals at
other places are included; `stack_push` and `stack_pop` are the ones at the
head. A caller passes an element of the list or `NULL`, and frees what it removes.

**UdpEcho**: a datagram is its sender, its target and its bytes, and a byte is the
one who wrote it. The server's turn is one action: receive, terminate, send all of
the buffer. The client is at one of its two prompts or waits. What is typed may be the server's
address, that of a host that does not answer, or none. `addr` and `port` are the parts of `target_pc`, of which a datagram replaces the port (the address
is set again before every message). A failed `sendto` may or may not have bound
the socket. Lost, doubled, rejected and foreign datagrams are bounded by
`MaxFaults` and `MaxStray`; the ghosts `stuck` and `disturbed` remember whom they
concern.

**Daytime**: one action per handler of the TCP and of the UDP half. `sends`
holds the outstanding answers by the endpoint each was given; a rejected answer
makes the next receive fail, as does a datagram longer than the buffer of one
byte (on Windows; elsewhere it is cut, which is the other choice).

**LockFree**: `++` of the counters, `push`, `pop` and the test of the flag are a step
each; a `push` that fails is tried again and changes nothing.

**CirQue**: the fields begin with any of a set of values, because `initCirQue`
sets none of them. An access outside of the array ends in `"broken"`. The ghost
`sound` records that the fields happened to describe an empty queue.

**WordShell**: `NewWord` is one insertion of `add` or `madd`; a failing
allocation is an action of its own for each place where the code treats it
differently. `remove` is the decision how many, and one step per word.

**Kmp** and **MySort**: functions, with recursive functions for the loops.
`qksort` is a machine instead, because its pivots are random: `frames` are the
running calls, `Partition` draws any pivot of the range, `Scan` is one turn of the
loop of `partition`.

## 3. Runs

All runs use `CHECK_DEADLOCK FALSE`: when all input is consumed (a bound) or
all processes have ended, the modelled systems really stop. That they do not
stop too early is what the liveness properties say.

| run | what it shows | bounds | states |
|---|---|---|---|
| `message_shipped` | `RoundTrip` **fails** with `destsz = 4` | the headers of `programs` | |
| `server` | order, write chain, framing, buffer stability, refinement of `ChatRoom`; queues drain, sessions are released | two peers, one of which may stop reading; three frames, a replay of two messages, bad headers | 214,030 |
| `client` | lines and messages accounted for in order, stalls only on closed sockets, the process ends | one client, two lines (empty ones too), two messages from the server, a bad header | 148,410 |
| `system` | rooms and screens show what was typed; server and clients do what their own modules say | two clients, one of which types two lines | 929,324 |
| `system_live` | lines get into the room and on the screens | two clients, one line | 41,936 |
| `bounce` | threads run until told, one writer, keys are answered, a released mutex stops all | three programs, three threads, limit two, 'd' twice | 103,552 |
| `bounce_stop_one` | `StopsOneThread` **fails** for Main01 | the same with one 'd' | |
| `servers` | echo: bytes conserved, one operation and no unfounded close, replies come and connections end; daytime: `RepliesToSender`, `Served`; shell: `WordsKept` | requests up to 7 bytes, buffer of 3, TCP holding 4 up and 2 down; two callers with two calls each; three elements, four blocks, four insertions | 64,303 |
| `logger` | `LogKept`: messages and blocks in one place, no line lost; `TopGetsPrinted` | two callers, any number of calls, two blocks | 81,813 |
| `programs` | messages: `RoundTrip`; functions: `KmpFindsAll`, `Sorting`; events: `Linked`, `ContentsKept`, `BlocksAccounted`; ring: `RingIsQueue`; lock-free: `AllConsumed`; faces: `ComesBack`, `NoTrail` | every length 0..600 around the limit of 512 and every header over nine characters of all classes; texts of up to 6 and patterns of up to 3 letters of two; arrays of up to 4 elements with 3 keys; three elements, four blocks, four events, two nested dispatches; three slots, fields from -1 to 3; two producers and two consumers, two values each; two faces on a console of 2 by 1, speeds from -1 to 1, one id on each side of 16 | 595,339 |
| `udp` | `WholeEchoes`, `InStep`, `WaitEnds` | two clients with two messages each, one stranger, one foreign datagram, one fault, a buffer of 3 | 353,540 |
| `udp_stranger` | `EchoIsMessage` **fails** | one client, one stranger | |

Why the bounds are enough. *Server*: with two peers and three frames a
message can be queued behind an outstanding write, the replay buffer of two
overflows, a session can join at any point of that, and leave through a read
error, a write error or a bad header, with messages queued. Three sessions
would add another copy of the same independent queue; the theorems below hold
for any number and cover that. *Client*: two lines are a queue with one message
in flight and one waiting, which is all that `write` and `do_write` tell apart.
*System*: two lines and a replay buffer of one let the second client miss, be
replayed, or be sent either line. *Echo*: a request is longer than the
session's buffer, than either direction of the connection and than both
together. *Bounce*: with a limit below the number of threads, the
limit, a slot that becomes free and a lost update of the counter all occur.
*Logger*: two callers are what a race in `init()` or in the stream takes, two blocks
what an order takes; a caller that finds no block free waits for one. *Events*: a list of
three has a first, a last and an element that is neither, a fourth event runs
out of elements and meets addresses used before; the shell's list is the same.
*Ring*: fields from -1 to 3 around three slots hold every legal queue, one with
a capacity beyond the array, and indices outside of it on both sides. *Lock-free*:
two consumers are what it takes for one to leave while the other still pops.
*Faces*: on the smallest console with an edge on each side every turn is near an
edge and two faces meet; the theorem covers larger ones. *UDP*: a buffer of 3
tells apart an empty, a typed and a full datagram (an empty one leaves the buffer as
it was); one fault
together with one foreign datagram reaches every way for a client to be out of
step; two clients are what it takes for bytes of the one to be in the buffer that
is sent to the other. *Search*: a pattern of three letters over two has every
border there is at that length, and a text of six holds overlapping places.
*Sorting*: four elements with three keys have equal and distinct ones, and a range
that is split twice.

The counts of frames, lines, messages, keys and calls are bounds of the models
only; `MaxFrames`, `MaxLines`, `MaxServed`, `MaxDels`, `Blocks` (of the logger),
`MaxRequest`, `MaxEvents`, `MaxDepth`, `MaxRequests`, `MaxStray`, `MaxFaults`,
`MaxCalls`, `MaxCount` and `MaxAdds` name them. Where a bound stops the environment, the programs'
own steps stay enabled.

No symmetry reduction is used: the liveness runs do not allow it and the
others are small enough without.

**Fairness.** Asio executes every completion that is ready and every posted
function, so handlers are weakly fair, with alternatives that depend on the
network (a write succeeds or fails) as one condition. TCP ends a connection
attempt one way or the other. Nothing makes a user type, press a key or end the
input, nor a peer send or go away: those actions have no fairness. In
`server` a slow peer's write need not complete while the peer stays. For
the console programs threads are scheduled (weak), and a thread that asks for
the screen again and again gets it (strong): Windows hands a mutex to its
waiters in turn. The logger's threads get its lock and a call that has begun goes on;
its wait may return spuriously but is not assumed to, and nobody need call it.
The UDP server loops without a condition and a datagram that is not lost
arrives, so its turns and a client's receive are weakly fair; `io_context.run()`
serves every completion of the daytime server. Losing, doubling and rejecting a
datagram have no fairness.

## 4. Findings

1. `MyChatMessage.hpp:71` passes `header_length` to `strncat_s` as the size of
   an array of `header_length + 1`. A four-character header and its terminator
   do not fit, and the runtime's invalid parameter handler ends the process: as
   shipped, the first header received ends whoever receives it (run
   `message_shipped`, theorem `DecodeAborts`). The other chat runs use
   `destsz = 5`, the array's real size; with 4 they would say nothing about the
   rest of the code. The handlers keep the branch for the abort, and the server
   theorems hold for both values.
2. `Main01.c`: one 'd' stops all threads, not "a thread", since each thread
   that ends abandons the run mutex to the next (`bounce_stop_one`; that this
   always happens is `StopsAll`).
3. `UDPServer.c:99` sends 99 bytes whatever it received: the echo of a shorter
   datagram ends with what an earlier sender has left in the buffer, against the comment
   on line 92 (`udp_stranger`). The repository's client always sends all of its buffer,
   and gets its own bytes back (`EchoIsOwn`).

Observations that no run is needed for, or that a passing property states:

- `MThread01.c:52` says "All threads done. Clean up handles.", but `ShutDown` waits
  for no thread: the handles are closed while threads run. `OneWriter` is
  therefore stated up to that point.
- `MThread02.c:162`: one 'd' may stop two threads there, since all compare
  `threadDeleteNr` with the same `threadNr`, and one may do so before the other has
  reset it: with `Programs = {"MThread02"}` and two threads, `StopsOneThread` fails too.
- `MThread01.c:151`: the row is tested with `>`, the column with `>=`. A face that
  gets to the row below the last one is off the screen and goes on downwards for one
  more turn, against the comment on line 145. It does come back (`ComesBack`).
- `Main01.c` and `MThread02.c` read and write characters where the attribute is
  meant: they draw the thread's number over the face and leave trails
  (`NoTrail` holds for `MThread01.c` only).
- `MLogger.cpp:192`: `os.clear()` resets the state of the stream and keeps its text, so
  that every message repeats all lines before it; and line 175 prints the address of the
  message, not its text. Messages are printed in the order of their addresses
  (`MLogger.h:96`), so that one at a low address may wait as long as others come:
  `TopGetsPrinted` is about the one on top.
- `qksort` does not sort: `MySort.c:76` lacks its `< 0`. It loses nothing and
  stays in its range (`Sorting`).
- `MyCircleQueue.c`: `initCirQue` initialises no field, `printCirQue` prints the first
  element as often as there are elements, `disposeCirQue` frees a local variable.
- The UDP client never shows an echo (`EchoUnseen`): both sides exchange 99
  bytes, which `udpclient.c:214` excludes. A datagram from elsewhere redirects
  its next message to the sender's port, where nobody echoes.
- The daytime server's UDP half ends with the first error; the TCP half goes on
  (`Served`).
- `add` of the word shell leaks a block when the insertion fails and uses the
  result of `malloc` untested; `madd` does neither.

## 5. Proofs

Every safety invariant that a run checks is proved here for all values of the
constants, except those listed at the end. The assumptions are the modules'
`ASSUME`s: types and ranges of the constants, and what is named below.

**ChatMessageProofs**, from `MessageAssumption` (the limit has at most four
digits; `destsz` is 4 or 5): `DecodeFits`, `DecodeEncode` and `DecodeAborts`,
for every header and length. `atoi` is written as four accumulation steps
rather than by recursion, which keeps it within reach of the prover. The lemmas
about units, headers and streams that the other three chat modules need are here
too. `Stream(u, s, k, part, end)` says that the units of `u` are those of the
messages `s` from the k-th on, in order and adjacent, beginning with the `part`
that is read next; `Planned` says to which message each unit belongs. `StreamServe`,
`StreamTake` and `StreamCut` are what a write, a read and a lost tail do to it.

**ChatServerProofs**, from `ServerAssumption`, `WireAssumption` and
`MessageAssumption`, that is for any set of clients, bodies, bad headers, limit
of the replay buffer and bound on frames: `TypeCorrect`, `Ordered`,
`RecentSuffix`, `Chained`, `Watched`, `Framed`, `BufferStable` and `Refinement`.
The inductive invariant `IInv` is the conjunction of

- `TypeOK`;
- `StreamOK`: adjacent units of a stream belong together, its first unit is
  what the outstanding read expects, and while the peer is there its last frame
  is complete. Even `TypeOK` needs it: if a body stood where a header is read,
  `read_msg_` would not be well formed;
- `Fresh`: a connection not yet accepted has no session, which is why a replay
  meets an empty queue;
- `OrderOK` and `RecentOK`: `InOrder` and `RecentIsSuffix` element by element
  (the provers reason about indices better than about `SubSeq`); each needs
  the other, since a replay makes a suffix of the history a session's queue;
- `WriteChain` and `MembersAreRead`.

There is one lemma per conjunct, with one step per action. `Refinement` follows
from `IInv`: `Accept` is `Join`, `ReadBody` is `Post`, `WriteDone` is `Get`,
the failures and a refused header are `Leave` or, when the session left
before, a stutter; all other steps stutter.

**ChatClientProofs**, from `ClientAssumption`, `WireAssumption` and
`MessageAssumption`, for any server and any lines: `ClientAccounts` and
`ClientStallsClosed`. `IInv` is `TypeOK` with

- `StreamOK`, for what is printed: what is on its way to the client is the `Stream`
  of the messages the server sent, from the one behind the last one printed. Only
  the end of the stream may be missing, or be a header that the client will refuse;
- `LinesOK`, for what is typed, which needs `CloseOK`: `close()` is posted once
  and behind all lines;
- `StallMeansClosed`, which needs `SocketOK`: a read starts only after the
  connect, and a closed socket is not connected later.

`Writes`, which takes `Close` out of the posted work, is written without
`SelectSeq`, which the provers do not know: `CloseOK` says it can only be last.

**ChatSystemProofs**, from `SystemAssumption`, `WireAssumption` and
`MessageAssumption`, for any set of clients, any lines and limits, and both values
of `destsz`: `SystemConforms` (of `SystemHasServer` and `SystemHasClients`),
`ScreensFollowRoom` and `RoomIsTyped`. The inductive invariant `IInv` is

- the inductive invariants of server and clients, which are not proved again. They
  are instances of the modules above (`ServerSame` and `ClientSame` say that the
  definitions reached this way are the ones that `ChatSystem` is built from), and
  hold because every step is a step of either side or a stutter (`ServerStep`,
  `ClientStep`);
- `QueuesOK`: the messages posted, queued and in the room have the header that
  encodes their length. The server's module lets a peer send only whole frames of
  such messages, so that without it a client would not be such a peer, nor the
  server what a client expects;
- `HeadersOK`: a body is read with the length its header decodes to, so that what
  the server builds from it has an encoded header again (`Relayed`);
- `ServedOK`: what reached a client is the beginning of what was written to its
  session, all of it while the connection is up. With the server's `OrderOK` and the
  client's `StreamOK` this is `ScreenShowsRoom`;
- `UpOK`: what a session has posted are the first lines that left its client, and
  what it has not read is the `Stream` of the others, cut if the client hung up. A
  line of length zero is one unit, which `Number` allows for while its body is
  being read;
- `OriginOK`: a message of the room is the line of its client that its place among
  that client's posts says. With the client's `LinesOK`, that what left is a
  beginning of what was typed, this is `RoomHasTyped`.

**TcpEchoProofs**, from `EchoAssumption`, for requests of any length and buffers of
any size: `RequestsConserved` and `WaitsForOne`. What `EchoInv` says of the bytes
is that reply, `down`, write buffer and `up`, one behind the other, are the request
as far as it was written; each action moves bytes over one of the borders. That
`do_write` erases only what it sent needs that a session reads into an empty
buffer, which `Operation` says; that a session begins so is `Fresh`.

**ProgramsProofs**, five programs:

- `RingHoldsItems`, from `CirQueAssumption`, for any number of slots and any capacity
  up to it: `Ring` says where the i-th item is, with `Behind` for the remainder
  (`Wraps`), so that it follows that the free slot is free.
- `NothingUnconsumed`, from `LockFreeAssumption`: the groups of threads are finite and
  there is a consumer (`LockFreeMain.cpp` makes one, the theorem is for any number).
  Producers' iterations are
  counted as a set of pairs (`Tickets`), which avoids sums: `produced` is its
  cardinality, and also what is consumed, on the stack and in the threads' hands
  (`Balanced`). `Phases` says that no push comes after the flag, so that a consumer
  that found nothing after it is right for good.
- `LogsKept`, from `LogAssumption` (blocks are positive numbers), for any number of
  callers, writers and blocks. `BlocksKept` is inductive with `Holders`: only who is about
  to push has a block. `LinesKept` needs `Streamed`: as long as no two threads were
  in the stream at once, it holds the insertions of everybody who is not inserting.
- `EchoesAreOwn`, `ClientsInStep` and `EchoesUnseen` (the first and the last make
  `EchoesAreWhole`), from `UdpAssumption`, for any clients, strangers and sizes of
  the buffer and a network that loses, doubles and reorders without limit. The first rests on `Sizes`: a client sends its whole
  buffer, so the server's buffer holds nothing but bytes of the last sender whenever
  that was a client. The second needs `Undisturbed`: until something extra comes for
  it, a client has one datagram on its way at most, still sends to the server's
  port, and has nothing on its way while it waits for another host. The third follows from the sizes.
- `RepliesReachSenders`, of the daytime server, is inductive with its types.

**BounceProofs**:

- `RunsUntilTold` and `ScreenExclusive`, from `BounceAssumption`, for any number of
  threads and each of the programs. `KeepRunning` needs `Untold` (before the first
  'd' or 'q', main owns the run mutex and no thread is marked), and both need the
  places of main and the threads (`Placed`).
- `FacesComeBack` and `NothingLeftBehind`, from `ScreenAssumption`, for any number of
  faces, any size of the console and any speed. `ComesBack` is inductive together
  with the types of places and directions. A turn that would leave the screen
  begins on it, so the reversed direction leads back to where it began
  (`AxisTurns`, for one axis); a face that is off the screen is one turn from being
  back, so it is not reversed a second time. `NoTrail` needs `Tidy`: a cell that
  is not blank looks like a face that was drawn there last, in its colour too;
  else that face would not recognise itself, and would stay.

**MyEventsProofs**, from `ListAssumption` (`NULL` is no address), for any memory
and any number of events and words.

- `AlwaysLinked`. The inductive invariant is `ListTypeOK` with `Linked`; it needs
  no strengthening, since `Linked` says all that the code relies on, but
  `InsertAt` and `RemoveAt` are first rewritten index by index
  (`LinkedByLength` restates `Linked` for a list of known length, `InsKeeps` and
  `RemKeeps` are the two operations, for the place of the element in the list).
  The other actions leave the list alone, except the end of `list_destroy`, which
  writes `NULL` to the ends of a list that is empty.
- `EventsKept` and `BlocksBalance`. `Owners` says that queue, dispatches and forgotten
  blocks share none and that none has two places in one of them; `Along`, that the
  contents of the queue are the pending events in order. Insertion and removal at
  a place keep `Along`, whatever the values are (`AlongIns`, `AlongRem`).
- `WordsStay`, of the shell, with the same lemmas: `Holders`, `Removals` (the loop of
  `remove` never counts more than there are) and `Along` for the words.

**Only model-checked**:

- all liveness, from the chat's `LinePosted` and `MessageShown` to the logger's
  `TopGetsPrinted`: fairness and `ENABLED` are outside the prover's reach;
- `RoundTrip`, `KmpFindsAll` and `Sorting`: what `kmp`, `issort` and `qksort`
  compute takes induction over data, which is outside the prover's reach. What
  `RoundTrip` says of headers that encode a length is `DecodeEncode`.

## 6. Not modelled

- Several ports in one chat server: their rooms share nothing but the thread.
- The title of the console window; the logger's copy operations (never
  called), its destructor (it leaves the writer on a dead object) and the characters
  of its messages (`MLogger.cpp:15` allocates the size of a pointer for them and
  writes beyond it).
- `MyService.c`: on Windows every `recvfrom` of its loop fails (an address length of 0,
  `MSG_WAITALL` on a datagram socket), and each turn writes in front of its buffer.
- `Project1/MyCirQue.c`: a copy of the menu of `TestCircle.c` that includes a header
  which does not exist. `MyString.c`: one function that nothing calls.
- Of the shell, `print`, `size` and the like, which change nothing; of the UDP
  client, the end of its input, after which it repeats itself for ever.
- `NamedSocketServer.c`, `UPDEchoServer.c`, `main.cpp` and parts of other files
  are `#if 0`.
- Formatting of strings and times, console and file I/O, exercises of language
  features: no protocol and no lasting state.

## 7. Plan

Every part of the repository with a protocol or lasting state has its module, and
all safety that the runs check is proved, for the chat's parts and for the chat as
a whole, except `RoundTrip`, `KmpFindsAll` and `Sorting`. What could come next:

1. `ChatRoom` as the promise of the whole chat, with the screens as its members:
   `ScreenShowsRoom` and `Refinement` together say most of it, but a screen lags
   behind the session, so the mapping would have to count what is on its way.
2. The step lemmas of the liveness properties: which step brings a queue nearer to
   empty, and that no other step takes it away from there.
