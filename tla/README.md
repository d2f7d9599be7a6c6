# Verification of LLFC ResourceServer

TLA+ specifications of the ResourceServer (`src/ResourceServer`), the TLC
configurations that check them on small instances, and TLAPS proofs for every
value of the constants.

## 1. The system

A TCP server: a peer sends frames (2-byte id, 4-byte length, body), one worker
thread handles the messages (an echo for `E_ID_TEST_MSG_REQ`, a file upload in
pieces for `E_ID_UPLOAD_FILE_REQ`), and the responses go back on the same
connection.

Threads: the **main** thread runs the acceptor's `io_context`;
**AsioIoServicePool** has two `io_context`s, each run by *two* threads
(`ioservicepool.cpp:14-17` and `21-24`); **LogicSystem** has one worker. A
session belongs to one `io_context`, so two handlers of one session may run at
once: `m_strand` is created (`csession.cpp:18`) and never used.

| Component | State | Operations | Interaction | What makes it correct |
|---|---|---|---|---|
| `LogicSystem` | `m_logic_que`, `m_mutex`, `m_cond`, `m_is_stop`, the worker | `post_message_to_logic_system`, `deal_message`, destructor | io threads post; the worker calls `CSession::send` | exclusion, no lost wake-up, order of posting, everything handled, shutdown ends |
| `CSession`, sending | `m_send_queue`, `m_send_lock`, the outstanding `async_write` | `send`, `write_handler`, `close` | `send` on the worker, `write_handler` on the io threads | one write at a time, order, delivery, bounded queue |
| `CSession`, reading | `m_data`, `m_recv_node`, the outstanding `async_read` | `start`, `read_head`, `read_message_full` | posts to `LogicSystem`; shares the `RecvNode` with it | frames whole and in order, buffers respected, posted messages frozen |
| `AsioIoServicePool` | services, guards, threads, `m_next_service` | constructor, `get_service`, `stop` | gives `CServer` the `io_context` of a session | even distribution, threads stay in `run()`, clean stop |
| `CServer` | `m_sessions`, the outstanding accept | `start`, `clear_session` | accepts on main; cleared from io threads through the plain pointer `mp_server` | connected sessions kept, closed ones released, accepting goes on |
| upload handler | the session's `std::ofstream`, the files | `do_upload_file_req` | runs on the worker under `m_mutex` | the file holds the pieces sent, the answer tells the truth |
| `run()`/`main`, statics | life times | signal, destructors | `LogicSystem` (younger static) is destroyed before the pool | shutdown order |
| `MsgNode` | lengths, bytes | constructors, `is_fulled` | framing of both directions | byte order, width |

Hard behaviours: `send` against `write_handler` without a common lock;
`m_sessions` used by five threads without one; the destructor's stop flag set
without the mutex; posts into a destroyed `LogicSystem`; the read issued before
the session is registered; a length of 0; failure of one of two operations of a
session; an upload abandoned half-way, or cut off by a crash; lengths that change
their width between the wire, an `int` and a `size_t`.

## 2. The modules

| Module | Models | Abstracted |
|---|---|---|
| `FifoChannel` | the promise of each stage: items leave in the order they entered, each once | |
| `SessionService` | the promise of a whole session to its peer: requests handled one at a time in their order, none skipped or repeated, responses only to requests whose handler was entered | |
| `LogicSystem` | `logicsystem.cpp` post, loop and destructor, one action per step between two lock operations or waits | a message is its id class and its number; a handler is whether it responds |
| `LogicSystemProofs` | its inductive invariant and theorems | |
| `SessionSend` | `csession.cpp:216-261`; each operation on `m_send_queue` is a step, as `write_handler` takes no lock | a response is its number; the body freed by `pop()` is modelled by membership in the queue |
| `SessionSendProofs` | its inductive invariant and theorems | |
| `SessionRead` | `csession.cpp:45-50, 144-214` and `RecvNode`, with the widths of the lengths | a byte is its position in the peer's stream; 2^31 and 2^64 are constants |
| `SessionReadProofs` | its inductive invariant and theorems | |
| `IoServicePool` | `ioservicepool.cpp` and the threads inside `io_context::run` | operations and handlers are counted |
| `IoServicePoolProofs` | its inductive invariant and theorems | |
| `CServer` | `cserver.cpp`, the life of sessions, the end of `run()` | a session is its number and what holds a `shared_ptr` to it |
| `CServerProofs` | its inductive invariant and theorems | |
| `Upload` | `logicsystem.cpp:35-108`, the stream that a session keeps (`csession.h:50`), the files, `base64_decode` | a piece is an item of a file; a stream's buffer reaches the file item by item |
| `UploadProofs` | its inductive invariant and theorems | |
| `UploadMC` | the symmetry of sessions, names and contents for TLC | |
| `Pipeline` | one session end to end: `SessionRead`, `LogicSystem` and `SessionSend` with the two io threads and the worker | the destructor of `LogicSystem` is left to `LogicSystem`'s own runs |
| `PipelineProofs` | its inductive invariant and theorems | |

State and code correspond by name wherever the code has a name
(`m_logic_que`, `m_send_queue`, `m_sessions`, `m_next_service`, ...). Control
points are string values (`worker = "sleep"`: the predicate was false and
`cond.wait` is about to block). Variables marked *history* in the declarations
record the past for the properties and never influence an action, except where
they bound a behaviour.

Undefined behaviour of the code (front or pop of an empty queue, a write of a
freed body, two threads in one `std::map`, a dangling `mp_server`) sets `ub`,
and no step follows: nothing is claimed of what comes after.

`FifoChannel` is instantiated by `LogicSystem` (`put` = handled and queued
nodes, `got` = handled nodes) and by `SessionRead` (`put` = the bodies the peer
sent, `got` = the bodies posted); each is checked and proved to implement
`Channel!Spec`. `SessionSend` (`put` = the accepted responses, `got` = the wire)
implements it until a send overlaps a `write_handler`:
`DeliversInOrderUnlessRaced` allows any step that sets `raced` and says nothing
of what follows it.

`SessionService` is what the three stages promise together, and `Pipeline`
implements it with no exception for races (`ServesPeer`): `requests` are the
frames the peer sent, `begun` counts the messages handled or in a handler, and
`responses` are the numbers of the requests whose responses were transmitted. A
race may lose, reorder or (in what follows undefined behaviour) repeat
responses, but none is to a request whose handler was not entered. `InOrder` of
the same module, which a race breaks, is asked for only before one.

`Pipeline` composes by conjunction: the instances `R`, `L` and `S` keep their
variables, share `m_is_stop` of the session, and the actions that belong to two
of them are joint. `read_message_full` posts with the mutex of `LogicSystem`
(`PostBegin`, `PostLock`, `Posting`: the reader's `BodyHandler`, which issues
the next read, is joined with the last step of the post); a callback holds that
mutex while it runs `send` (`CallbackSend`, `CallbackPush`, `CallbackWrite`,
`CallbackReturn`). `R`'s `CloseByWriter` and `S`'s `CloseByReader`, which stand
for each other's half, are not used: `HandlerError` and `ReadError` close. An
io thread is in one handler at a time (`Free`). What a module lets its
environment do when it is checked alone is an assumption about the others, and
the composition discharges it: `PartsImplemented` says that every behaviour of
`Pipeline` is one of `SessionRead`, of `LogicSystem` and of `SessionSend`.

In `Upload` the handler has three steps (open, write, close), between which
other sessions' streams may be destroyed and the process may crash. `expect`
is a history of what the requests entitle a reader to find in a file: a first
piece that opens the file starts it, each next piece of the same upload extends
it, anything else that is written ends it. `lost` are the files on which an open
or a write has failed; the program itself answers `E_SUCESS` in that case too.

Operators marked "a slip" are variants of the definition that follows them,
each with one plausible mistake. They are used only to make sure that every
property notices one: with the definition replaced by the variant, the property
fails.

## 3. The runs

| Run | Instance | Shows |
|---|---|---|
| `logic` | 2 io threads, 3 messages | invariant of the proofs, `QueueExclusive`, `NoLostWakeup`, the FIFO refinement; every queued message is handled; the stop ends the worker unless its notification fell between predicate and wait |
| `send` | 2 io threads, `MAX_SENDQUE` 2, 4 calls | invariant of the proofs; queue at most one over its limit always; until a send overlaps a `write_handler`: nothing undefined, one write of the front, every queued response has a thread or an operation that will write it, the FIFO refinement, every accepted response delivered unless closed |
| `read` | head and buffer of 2 bytes, `int` up to 7, lengths 0, 2, 5, 8, 9, 11, 15, 3 messages | invariant of the proofs; chunks fit and only a length beyond an `int` overflows a node; messages whole and in order for every cutting of the stream, posted nodes frozen, every message posted unless the session ends or a huge one precedes it |
| `pool` | 2 services (as in the code), 4 threads, 3 `get_service`, 3 operations | invariant of the proofs; even distribution, threads stay in `run()`, handlers run, `stop()` returns with all threads out |
| `server` | 2 sessions, 2 io threads | invariant of the proofs; connected sessions are kept; the only leak is a failure before the insertion; accepting goes on; closed sessions are released |
| `upload` | 2 sessions, 2 names, 2 contents of 2 pieces, 3 requests, crashes | invariant of the proofs; file and buffer together hold the pieces acknowledged; a finished file is all on disk |
| `pipeline` | 2 io threads, 2 messages of 0 or 2 bytes read byte by byte, `MAX_SENDQUE` 1 | invariant of the proofs; each part keeps its own specification; the whole implements `SessionService`; nodes keep their numbers from stage to stage; a callback sees the whole of its own request; until a send overlaps a `write_handler`, responses in the order of requests, and every test request answered unless the session ends |
| `logic_stop_exits` | as `logic` | **violated**: finding 1 |
| `logic_invalid_id` | as `logic` | **violated**: finding 2 |
| `send_others_deliver` | as `send` | **violated**: finding 3 |
| `read_empty_message` | as `read` | **violated**: finding 4 |
| `upload_first_piece` | as `upload`, without symmetry | **violated**: finding 5 |

Why the bounds are enough. In `logic` two posters and three messages give a
notifying poster, a non-notifying one, a queue of length two behind a running
handler, and posts during and after the destructor. In `send` four calls with a
limit of two reach the over-full queue, the drop, and a response behind an
active write; two io threads give overlapping handlers. In `read` the buffer
equals the head, length 2 fills it exactly and 5 needs three chunks of which
the last is short; 8 to 15 stand for the lengths from 2^31 to 2^32 - 1, among
them 8 and 15 as the first and the last, where the signed and the unsigned
reading differ most and where `total_len + 1` wraps; with three messages every
length follows every other. In `pool` three calls wrap the index. In `upload` three requests
are enough for an abandoned first piece, a first piece of another upload behind
it and a continuation, by one session or two, with a crash anywhere; runs by
hand with four requests (9.5 million states) find nothing else. In `pipeline`
two messages reach a response left to a running write, an overlap of send and
`write_handler`, and a request read and posted while the one before is handled;
a message of two bytes needs two reads, one of none a read of nothing. A third
message would add only the response refused at the limit, which `send` reaches;
a run by hand with three messages of two bytes (370 thousand states) finds
nothing else, and the theorems hold for every number of messages. In `server`
one session can be inserted while the other is erased, and two can be erased at
once.

`CHECK_DEADLOCK` is off everywhere: the counters bound each behaviour, a peer
may fall silent, the process exits, and nothing follows undefined behaviour.

### Fairness

Only what the platform provides. Threads that are in a function run on (weak
fairness on each thread's steps); the mutex is taken by whoever waits for it in
the end (weak fairness of the one worker, as posts are bounded; in `Pipeline`
strong fairness of the reader's thread, the one that waits to post, because
spurious wake-ups may take the mutex again and again); asio completes
operations, runs ready handlers in turn and fails the operations of a closed
socket (weak, in `CServer` strong, because threads are shared and the handler
queue of an `io_context` is FIFO). `SessionSend` also assumes that a connected
peer goes on reading; a peer that stops reading stalls the session, as there is
no timeout in the code. No fairness is given to peers' messages, signals,
spurious wake-ups, accepts or failures of an open socket.

## 4. Findings

1. `logicsystem.cpp:16`. The destructor sets `m_is_stop` and notifies without
   `m_mutex`. If both happen between the worker's evaluation of the predicate
   and its block, the worker sleeps for ever and `join()` with it; the comment
   at `:152` promises the exit.
2. `logicsystem.cpp:142`. A request with an unregistered id gets no response,
   although `global.hpp:56` declares `E_INVALID_ID` for it and
   `test_session.h:29,55` waits for one.
3. `csession.cpp:226`. `send` leaves a response to "the thread that is already
   dealing with it", which may have just found the queue empty: the response is
   never written, and every later one queues up behind it.
4. `csession.cpp:181,189`. A message of length 0 completes the body read with 0
   bytes, which the assertion excludes (it ends a `_DEBUG` build; other builds
   post an empty message).
5. `logicsystem.cpp:72`. A first packet truncates its file ("destroys the file",
   `:74`) only when the session's stream is closed. After an upload that did not
   get to its last packet it is appended to the old file and answered with
   `E_SUCESS`; the file it names is not touched.

Seen and not run: `m_sessions` is shared without a lock and `mp_server` dangles
after `run()` has ended (both are reached in `CServer` as `ub`; no text of the
repository claims the opposite); a message posted after the worker has left its loop is
never handled, as the io threads run until the pool's later destruction
(`EveryPostHandled` speaks of the time before); the send queue holds
`MAX_SENDQUE + 1` responses, one more than `global.hpp:33` says
(`QueueBounded` has the exact bound); a message of 2^31 bytes or more overflows
its node, or never completes (`OnlyHugeOverflows`); an upload is answered with
`E_SUCESS` when the open or the write has failed; `test_session.h:33` converts the 4-byte length
with the 16-bit conversion, so the server reads `n << 16`; `service.stop()`
drops ready handlers although the comment at `ioservicepool.cpp:40` lets them
finish.

## 5. The proofs

TLAPS checks, from the named assumptions on the constants alone:

* `LogicSystemProofs` - `Invariant`, `TypeCorrect`, `Exclusion`, `WakeupKept`,
  `MutexReleased`, `NeverStuck`, `StopNotMissed`, `ImplementsChannel`. `NoLostWakeup` is not inductive alone: that a poster
  which saw a non-empty queue need not notify depends on who holds the mutex
  while the worker decides to sleep. `IInv` adds the mutex's owner for every
  critical section (`MutexInv`) and what the worker knows of the queue at each
  place (`WorkerInv`: the handler runs only on a non-empty queue, the worker
  has left when the object is gone). `HolderInv` is the converse of `MutexInv`:
  whoever holds the mutex is inside a critical section, or was cut off by the end
  of the object. From the two follows `NeverStuck`: beside a message there is
  always a thread whose next step waits for nobody, the safety half of
  `EveryPostHandled` (that such a thread then moves is fairness). `StopNotMissed`
  is the safety half of `StopExitsUnlessMissed`: after `notify_all` the worker
  waits no more, unless the destructor overtook it between predicate and wait. The refinement maps `PostPush` to `Put`, a
  pop to `Get`, and everything else to a stutter. Assumption:
  `PostersAssumption` (no io thread is called "free" or "worker").
* `SessionSendProofs` - `Invariant`, `TypeCorrect`, `Bounded`, `Defined`,
  `OneWrite`, `InOrder`, `Attended`, `ImplementsChannel`. The bound holds however the threads interleave,
  because only the one sender adds and the size it read can only have shrunk
  (`BoundInv`). The others hold until a send overlaps a `write_handler`:
  `TurnInv` says who knows what while the two take turns, `SplitInv` that the
  queue and the wire split the accepted responses, the front belonging to both
  between its transmission and its completion. `AcceptedInv`, which races do not
  disturb, says that whatever is queued, written or on the wire was accepted;
  `AttendedInv` that a response in the queue has a writer, which an overlap can
  take away (finding 3). In the refinement `SendPush` is the `Put` and `Transmit`
  the `Get`. Assumption: `SendAssumption`.
* `IoServicePoolProofs` - `Invariant`, `TypeCorrect`, `EvenlySpread`,
  `GuardsHold`, `AllJoined`. `RoundRobin` compares each service with the last
  one, which turns "even" into something a step can preserve; `ThreadInv`
  places every thread by the main thread's loop. Assumption: `SizeAssumption`.

* `SessionReadProofs` - `Invariant`, `TypeCorrect`, `ChunksFit`,
  `OverflowOnlyHuge`, `Frozen`, `ImplementsChannel`. That the right bytes reach
  the right node is a statement about positions: `Contiguous` gives each message
  its place in the stream, `AtHead` and `InBody` say that the read under way
  continues the stream where the messages posted, or the bytes already in the
  node, end, and `PostedWhole` that the nodes posted are the messages sent.
  From it the decoded length is the length of the message that begins there
  (`HeadDecoded`), through the two conversions (`Widths`), and each step is a
  `Put`, a `Get` or a stutter of the channel. Assumption: `LenAssumption`
  (a positive head, a buffer that holds it, lengths of 32 bits).
* `UploadProofs` - `Invariant`, `TypeCorrect`, `AcknowledgedKept`,
  `CompleteKept`. `AcknowledgedIsWhole` needs that a file of which something is
  expected has at most one stream (`SoleWriter`), that a truncated file is
  written at its end (`AtEnd`), that a failed stream is known as such
  (`FailuresKnown`), and that a finished file is closed (`CompleteClosed`); a
  partial flush moves items from the buffer to the file and keeps their
  concatenation (`FlushKeepsAll`). Assumptions: `NamesAssumption`,
  `PiecesAssumption`.
* `CServerProofs` - `Invariant`, `TypeCorrect`, `Kept`, `LeaksOnlyEarly`,
  `UndefinedByOverlap`.
  `OnlyEarlyLeaks` looks at sessions that nothing holds; the invariant is about
  those on their way: in the map or about to enter it, a session has its read,
  or is being cleared, or was erased early (`WillBeCleared`).
  `UndefinedByOverlap` settles what `ub` stands for: it is there exactly when a
  `clear_session` overlaps another one, an insertion or the end of the
  `CServer` (`Overlap`), and never before a session has failed. Assumption:
  `SessionsAssumption`.
* `PipelineProofs` - `Invariant`, `Parts`, `NodesInStep`, `RequestSeen`,
  `RequestOrder`, `Serves`, `BoundsOfPeer`. Every step is a step of each part or does not concern it
  (`StepL`, `StepS`, `StepR`), so the invariants of the parts hold in the
  composition by their own lemmas and nothing of them is proved twice. Only
  `StepR` needs to know of another part: a failed write closes the session
  under the reader, which expects that a message was posted before, and so it
  was (`WireAnswers`, `InStep`): what is written was accepted, and what was
  accepted answers a message posted. What is new relates the parts: one post is
  under way, of the message in `m_data` (`PostingInv`), `send` runs inside a
  callback and once in each (`CallbackInv`), each accepted response answers a
  later message than the one before (`AnswersInv`). The order on the wire is
  then `SessionSend`'s order of the accepted responses, taken through `answers`. For `Serves` the peer's send is an
  `Ask`, the entry into a callback or the drop of a message a `Handle`, the end
  of a transmission a `Respond`, and the rest stutters; it needs that the worker
  only finds what was sent (`WorkWasSent`) and that every accepted response
  answers a message whose handler was entered (`AnswersHandled`).
  `BoundsOfPeer` is about the model: the bound on the messages stops the peer
  and nobody else, so it hides no behaviour of the server's.
  Assumption: `PipelineAssumption` (those of the parts, and no io thread is
  called "asio").

Only model-checked: all liveness (`EveryPostHandled`, `StopExitsUnlessMissed`,
`DeliveredUnlessRaced`, `EveryFramePosted`, `StopReturns`, `HandlersRun`,
`KeepsAccepting`, `ClosedIsReleased`, `TestAnsweredUnlessRaced`), which is beyond
the prover. Every safety property of the passing runs is also proved.

## 6. Not modelled

Of the repository's C and C++ lines nearly all (25 thousand of 26) are the
headers of LuaJIT under `src/LuaJit`, vendored and used by one start-up smoke
test (`luavm.hpp`) without effect on the server: they are not modelled, so the
share of the repository that the models cover is small while the server itself
(`src/ResourceServer/src` and `include`) is covered but for the following. Byte
order (`socket_ops`, Boost's); the toml configuration, read once; JSON, by
whether it parses; logging; allocation failure; the second constructor of
`MsgNodeBase`, which nothing calls; `getchar` and the console set-up; the dead
code after the `return` in `CSession::start`; the manual test programs.
`_DEBUG` builds differ by `Assert` ending the process; the models are of the
other builds. Nothing in the code bounds `m_logic_que` (`MAX_RESVQUE` is
compared with nothing), so no property does.

## 7. What could be added

A second session in `Pipeline`, which shares the worker but no other state; the
destructor of `LogicSystem` in `Pipeline`; `CServer`'s session objects in
`Pipeline`, which would tie the failure of a handler to `clear_session`.
