---------------------------- MODULE SessionSend ----------------------------
(***************************************************************************)
(* The sending half of CSession (csession.cpp): send(), called by the one  *)
(* thread of LogicSystem, and write_handler(), run by the two threads that *)
(* AsioIoServicePool gives the session's io_context.  send() locks         *)
(* m_send_lock; write_handler() locks nothing and runs on no strand, so    *)
(* each operation on m_send_queue is a step of its own.                    *)
(***************************************************************************)
EXTENDS Naturals, Sequences

CONSTANTS IoThreads,     \* the threads that run the session's io_context
          MAX_SENDQUE,   \* the queue limit of global.hpp
          MaxSends       \* bound on the calls of send in a behaviour

ASSUME SendAssumption == MAX_SENDQUE \in Nat /\ MaxSends \in Nat

VARIABLES
  m_send_queue,  \* the responses accepted and not popped, each its number
  sender,        \* the logic thread: [pc, que_size], the size it read
  handler,       \* where each io thread is in write_handler
  writes,        \* every async_write: its response, and how it stands
  m_is_stop,     \* close() has run, and with it m_sock.close()
  wire,          \* the responses given to the peer, in order
  calls,         \* the calls of send so far
  accepted,      \* the responses pushed so far
  ub,            \* front() or pop() of an empty queue, or a write of a freed
                 \* body, has happened: nothing is known any more
  raced          \* history: a send and a write_handler have overlapped

vars == <<m_send_queue, sender, handler, writes, m_is_stop, wire, calls,
          accepted, ub, raced>>

Response == Nat \ {0}
Status == {"pending", "sent", "failed", "done"}
Idle == [pc |-> "idle", que_size |-> 0]

TypeOK ==
  /\ m_send_queue \in Seq(Response)
  /\ sender \in [pc : {"idle", "push", "write"}, que_size : Nat]
  /\ handler \in [IoThreads -> {"idle", "popped", "front"}]
  /\ writes \in Seq([no : Response, status : Status])
  /\ wire \in Seq(Response)
  /\ calls \in Nat /\ accepted \in Nat
  /\ m_is_stop \in BOOLEAN /\ ub \in BOOLEAN /\ raced \in BOOLEAN

Init ==
  /\ m_send_queue = <<>>
  /\ sender = Idle
  /\ handler = [t \in IoThreads |-> "idle"]
  /\ writes = <<>>
  /\ m_is_stop = FALSE
  /\ wire = <<>>
  /\ calls = 0 /\ accepted = 0
  /\ ub = FALSE /\ raced = FALSE

InWrites(status) == {w \in DOMAIN writes : writes[w].status = status}
Become(w, status) == writes' = [writes EXCEPT ![w].status = status]

(* An overlap of send with write_handler, noted by each step of the two. *)
NoteRace ==
  raced' = (raced \/ (sender'.pc # "idle" /\ \E t \in IoThreads : handler'[t] # "idle"))

(* async_write of the front; front() of an empty queue is undefined. *)
WriteBack ==                               \* a slip: the newest is written
  IF m_send_queue = <<>>
  THEN ub' = TRUE /\ UNCHANGED writes
  ELSE /\ writes' = Append(writes, [no |-> m_send_queue[Len(m_send_queue)], status |-> "pending"])
       /\ UNCHANGED ub
WriteFront ==
  IF m_send_queue = <<>>
  THEN ub' = TRUE /\ UNCHANGED writes
  ELSE /\ writes' = Append(writes, [no |-> Head(m_send_queue), status |-> "pending"])
       /\ UNCHANGED ub

---------------------------------------------------------------------------
(* The logic thread: send. *)

(* The lock is taken and the size read; above the limit the response is    *)
(* dropped.  Only this thread takes m_send_lock, so it never waits for it. *)
OverLimitByOne(que_size) == que_size > MAX_SENDQUE + 1   \* a slip
OverLimit(que_size) == que_size > MAX_SENDQUE

SendBegin ==
  /\ sender.pc = "idle" /\ calls < MaxSends
  /\ calls' = calls + 1
  /\ sender' = IF OverLimit(Len(m_send_queue)) THEN Idle
               ELSE [pc |-> "push", que_size |-> Len(m_send_queue)]
  /\ UNCHANGED <<m_send_queue, handler, writes, m_is_stop, wire, accepted, ub>>
  /\ NoteRace

(* With a size above 0, another thread is taken to be writing. *)
LeftToNobody == FALSE                      \* a slip: always writes itself
LeftToOthers == sender.que_size > 0

SendPush ==
  /\ sender.pc = "push"
  /\ m_send_queue' = Append(m_send_queue, accepted + 1)
  /\ accepted' = accepted + 1
  /\ sender' = IF LeftToOthers THEN Idle ELSE [sender EXCEPT !.pc = "write"]
  /\ UNCHANGED <<handler, writes, m_is_stop, wire, calls, ub>>
  /\ NoteRace

SendWrite ==
  /\ sender.pc = "write"
  /\ WriteFront
  /\ sender' = Idle
  /\ UNCHANGED <<m_send_queue, handler, m_is_stop, wire, calls, accepted>>
  /\ NoteRace

---------------------------------------------------------------------------
(* The socket.  The body of a response that was popped is freed memory. *)

Transmit(w) ==
  /\ w \in InWrites("pending") /\ ~m_is_stop
  /\ IF \E i \in DOMAIN m_send_queue : m_send_queue[i] = writes[w].no
     THEN /\ Become(w, "sent")
          /\ wire' = Append(wire, writes[w].no)
          /\ UNCHANGED ub
     ELSE ub' = TRUE /\ UNCHANGED <<writes, wire>>
  /\ UNCHANGED <<m_send_queue, sender, handler, m_is_stop, calls, accepted, raced>>

(* The peer is gone, or the socket was closed under the write. *)
WriteFails(w) ==
  /\ w \in InWrites("pending")
  /\ Become(w, "failed")
  /\ UNCHANGED <<m_send_queue, sender, handler, m_is_stop, wire, calls, accepted, ub, raced>>

(* The reading half closes the session when its own operation fails. *)
CloseByReader ==
  /\ ~m_is_stop
  /\ m_is_stop' = TRUE
  /\ UNCHANGED <<m_send_queue, sender, handler, writes, wire, calls, accepted, ub, raced>>

---------------------------------------------------------------------------
(* The io threads: write_handler. *)

HandlerError(t, w) ==
  /\ handler[t] = "idle" /\ w \in InWrites("failed")
  /\ Become(w, "done")
  /\ m_is_stop' = TRUE
  /\ UNCHANGED <<m_send_queue, sender, handler, wire, calls, accepted, ub, raced>>

HandlerPop(t, w) ==
  /\ handler[t] = "idle" /\ w \in InWrites("sent")
  /\ Become(w, "done")
  /\ IF m_send_queue = <<>>
     THEN ub' = TRUE /\ UNCHANGED <<m_send_queue, handler>>
     ELSE /\ m_send_queue' = Tail(m_send_queue)
          /\ handler' = [handler EXCEPT ![t] = "popped"]
          /\ UNCHANGED ub
  /\ UNCHANGED <<sender, m_is_stop, wire, calls, accepted>>
  /\ NoteRace

HandlerEmptyByOne(t) ==                    \* a slip: the last one is not written
  /\ handler[t] = "popped"
  /\ handler' = [handler EXCEPT ![t] = IF Len(m_send_queue) <= 1 THEN "idle" ELSE "front"]
  /\ UNCHANGED <<m_send_queue, sender, writes, m_is_stop, wire, calls, accepted, ub>>
  /\ NoteRace
HandlerEmptyIgnored(t) ==                  \* a slip: no return on an empty queue
  /\ handler[t] = "popped"
  /\ handler' = [handler EXCEPT ![t] = "front"]
  /\ UNCHANGED <<m_send_queue, sender, writes, m_is_stop, wire, calls, accepted, ub>>
  /\ NoteRace
HandlerEmpty(t) ==
  /\ handler[t] = "popped"
  /\ handler' = [handler EXCEPT ![t] = IF m_send_queue = <<>> THEN "idle" ELSE "front"]
  /\ UNCHANGED <<m_send_queue, sender, writes, m_is_stop, wire, calls, accepted, ub>>
  /\ NoteRace

HandlerWrite(t) ==
  /\ handler[t] = "front"
  /\ WriteFront
  /\ handler' = [handler EXCEPT ![t] = "idle"]
  /\ UNCHANGED <<m_send_queue, sender, m_is_stop, wire, calls, accepted>>
  /\ NoteRace

---------------------------------------------------------------------------

SenderStep == SendPush \/ SendWrite
SocketStep == \E w \in DOMAIN writes : Transmit(w) \/ WriteFails(w)
HandlerBegin == \E t \in IoThreads, w \in DOMAIN writes : HandlerPop(t, w) \/ HandlerError(t, w)
HandlerStep(t) == HandlerEmpty(t) \/ HandlerWrite(t)

(* Nothing is specified after undefined behaviour. *)
Next ==
  /\ ~ub
  /\ \/ SendBegin \/ SenderStep
     \/ SocketStep \/ CloseByReader
     \/ HandlerBegin \/ \E t \in IoThreads : HandlerStep(t)

Spec == Init /\ [][Next]_vars

(* Threads that are in a function run on, asio runs every handler, and a   *)
(* peer that is connected goes on reading, so every write ends; the calls  *)
(* of send and the closings come from outside.                             *)
FairSpec ==
  /\ Spec
  /\ WF_vars(~ub /\ SenderStep)
  /\ WF_vars(~ub /\ SocketStep)
  /\ WF_vars(~ub /\ HandlerBegin)
  /\ \A t \in IoThreads : WF_vars(~ub /\ HandlerStep(t))

---------------------------------------------------------------------------
(* Safety. *)

Active == InWrites("pending") \cup InWrites("sent")

(* The limit is checked before the push with ">", so the queue holds one   *)
(* response more than MAX_SENDQUE, races or not: only the sender adds.     *)
QueueBounded == Len(m_send_queue) <= MAX_SENDQUE + 1

(* As long as no send has overlapped a write_handler, nothing undefined    *)
(* happens: no empty queue is popped, no freed body is written.            *)
DefinedUnlessRaced == ub => raced

(* ... at most one async_write is outstanding on the socket, and it writes *)
(* the front of the queue;                                                 *)
OneWriteUnlessRaced ==
  ~raced => \A w \in Active :
              /\ m_send_queue # <<>> /\ writes[w].no = Head(m_send_queue)
              /\ \A v \in Active : v = w

(* ... the peer gets the accepted responses in order, each once: the       *)
(* sending half implements the FIFO channel from push to peer;             *)
InOrderUnlessRaced ==
  ~raced => /\ Len(wire) <= accepted
            /\ \A i \in DOMAIN wire : wire[i] = i

Channel == INSTANCE FifoChannel
             WITH put <- [i \in 1..accepted |-> i], got <- wire, Item <- Response
DeliversInOrderUnlessRaced == Channel!Init /\ [][raced' \/ Channel!Next]_(Channel!vars)

(* ... and a queued response has somebody to write it: send, or the        *)
(* write_handler that runs or is still to come; but for a closed session.  *)
Outstanding == InWrites("pending") \cup InWrites("sent") \cup InWrites("failed")
AttendedUnlessRaced ==
  ~raced /\ m_send_queue # <<>> =>
    \/ sender.pc # "idle" \/ \E t \in IoThreads : handler[t] # "idle"
    \/ Outstanding # {} \/ m_is_stop

---------------------------------------------------------------------------
(* Liveness, of FairSpec. *)

Delivered(n) == \E i \in DOMAIN wire : wire[i] = n

(* As long as no send has overlapped a write_handler, an accepted response *)
(* reaches the peer or the session is closed.                              *)
DeliveredUnlessRaced ==
  []~raced => \A n \in 1..MaxSends : accepted >= n ~> Delivered(n) \/ m_is_stop

---------------------------------------------------------------------------
(* What a comment claims and the code does not do. *)

(* "a thread is already dealing with it, leave first" (csession.cpp:226):  *)
(* a response left to the other thread is dealt with.                      *)
OthersDeliver ==
  \A n \in 1..MaxSends : accepted >= n ~> Delivered(n) \/ m_is_stop \/ ub
=============================================================================
