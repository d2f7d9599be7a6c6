------------------------------ MODULE Pipeline ------------------------------
(***************************************************************************)
(* One session from the bytes of a request to the bytes of its response:   *)
(* SessionRead, LogicSystem and SessionSend with the two threads of the    *)
(* session's io_context and the worker, up to the exit of the process.     *)
(* The modules share the threads, m_is_stop of the session, and the calls  *)
(* that lead from one to the next: read_message_full posts under the mutex *)
(* of LogicSystem, and the callbacks, which hold that mutex, call send.    *)
(***************************************************************************)
EXTENDS Naturals, Sequences, FiniteSets

CONSTANTS IoThreads,     \* the threads that run the session's io_context
          HEAD_TOTAL_LEN, BUFFER_TOTAL_LEN, INT_LIMIT, SIZE, Lengths,
          MAX_SENDQUE,
          MaxMessages    \* bound on the messages of a behaviour

VARIABLES
  sent, eof, consumed, read, m_data, nodes, posted, read_ub,
  m_logic_que, m_mutex, life, worker, poster, processed, answered,
  m_send_queue, sender, handler, writes, wire, calls, accepted, send_ub, raced,
  m_is_stop,   \* of the session: close() has run
  reader,      \* the io thread that has a whole message to post, or "asio"
  answers      \* history: the message that each accepted response answers

(* The three modules, each with its inductive invariant.                   *)
R == INSTANCE SessionReadProofs WITH MaxFrames <- MaxMessages, ub <- read_ub
L == INSTANCE LogicSystemProofs WITH Posters <- IoThreads, MaxPosts <- MaxMessages
S == INSTANCE SessionSendProofs WITH MaxSends <- MaxMessages, ub <- send_ub

ASSUME PipelineAssumption ==
  /\ R!LenAssumption /\ S!SendAssumption
  /\ IoThreads \cap {"free", "worker", "asio"} = {}

reading == <<sent, eof, consumed, read, m_data, nodes, posted, read_ub>>
logic == <<m_logic_que, m_mutex, life, worker, poster, processed, answered>>
sending == <<m_send_queue, sender, handler, writes, wire, calls, accepted, send_ub, raced>>
vars == <<reading, logic, sending, m_is_stop, reader, answers>>

Init == R!Init /\ L!Init /\ S!Init /\ reader = "asio" /\ answers = <<>>

(* An io thread that is in none of the handlers. *)
Free(t) == t # reader /\ handler[t] = "idle" /\ poster[t] = "idle"

---------------------------------------------------------------------------
(* The peer, and the reading of all but the end of a message. *)

Peer ==
  /\ R!ClientSend \/ R!ClientClose \/ R!Receive
  /\ UNCHANGED <<logic, sending, reader, answers>>

Reading ==
  /\ \E t \in IoThreads : Free(t)
  /\ R!HeadHandler \/ R!ReadError \/ (R!BodyHandler /\ posted' = posted)
  /\ UNCHANGED <<logic, sending, reader, answers>>

(* The last piece of a message: its handler is going to post it.           *)
MessageRead ==
  /\ R!Complete("body")
  /\ Len(R!m_recv_node.body) + Len(m_data) = R!m_recv_node.total_len

PostBegin(t) ==
  /\ Free(t) /\ reader = "asio" /\ MessageRead
  /\ reader' = t
  /\ UNCHANGED <<reading, logic, sending, m_is_stop, answers>>

PostLock(t) ==
  /\ reader = t /\ L!PostLock(t)
  /\ UNCHANGED <<reading, sending, m_is_stop, reader, answers>>

PostingReposts(t) ==     \* a slip: no next read, the message is posted again
  /\ L!PostPush(t) \/ L!PostNotify(t)
  /\ reader' = IF poster'[t] = "idle" THEN "asio" ELSE reader
  /\ UNCHANGED <<reading, sending, m_is_stop, answers>>

(* The next read begins when post_message_to_logic_system has returned.    *)
Posting(t) ==
  /\ L!PostPush(t) \/ L!PostNotify(t)
  /\ IF poster'[t] = "idle"
     THEN R!BodyHandler /\ reader' = "asio"
     ELSE UNCHANGED <<reading, m_is_stop, reader>>
  /\ UNCHANGED <<sending, answers>>

---------------------------------------------------------------------------
(* The worker. *)

WorkerTurn ==
  /\ \/ L!Construct \/ L!WorkerLock \/ L!WorkerPredicate \/ L!WorkerBlock
     \/ L!WorkerDrop \/ L!WorkerCall \/ L!WorkerNoWork
  /\ UNCHANGED <<reading, sending, m_is_stop, reader, answers>>

SpuriousWakeup ==
  /\ L!SpuriousWakeup
  /\ UNCHANGED <<reading, sending, m_is_stop, reader, answers>>

(* A callback calls send once or not at all.                               *)
HasCalled == calls > Cardinality(answered)

CallbackSend ==
  /\ worker = "handler" /\ ~HasCalled
  /\ S!SendBegin
  /\ UNCHANGED <<reading, logic, reader, answers>>

CallbackPush ==
  /\ S!SendPush
  /\ answers' = Append(answers, Head(m_logic_que).no)
  /\ UNCHANGED <<reading, logic, reader>>

CallbackWrite ==
  /\ S!SendWrite
  /\ UNCHANGED <<reading, logic, reader, answers>>

CallbackReturn ==
  /\ L!WorkerReturn
  /\ sender.pc = "idle" /\ HasCalled = (answered' # answered)
  /\ UNCHANGED <<reading, sending, m_is_stop, reader, answers>>

---------------------------------------------------------------------------
(* The socket and write_handler. *)

Socket == S!SocketStep /\ UNCHANGED <<reading, logic, reader, answers>>

WriteHandlerBegin ==
  /\ \E t \in IoThreads, w \in DOMAIN writes :
       Free(t) /\ (S!HandlerPop(t, w) \/ S!HandlerError(t, w))
  /\ UNCHANGED <<reading, logic, reader, answers>>

WriteHandler(t) ==
  /\ S!HandlerStep(t)
  /\ UNCHANGED <<reading, logic, reader, answers>>

Worker == WorkerTurn \/ CallbackSend \/ CallbackPush \/ CallbackWrite \/ CallbackReturn

Defined == ~read_ub /\ ~send_ub

Next ==
  /\ Defined
  /\ \/ Peer \/ Reading
     \/ \E t \in IoThreads : PostBegin(t) \/ PostLock(t) \/ Posting(t) \/ WriteHandler(t)
     \/ Worker \/ SpuriousWakeup
     \/ Socket \/ WriteHandlerBegin

Spec == Init /\ [][Next]_vars

(* The fairness of the three modules; the mutex, which is free again and   *)
(* again, is given at some time to the io thread that waits for it: there  *)
(* is one, the reader's, so its steps need no fairness of their own each.  *)
Delivers == R!Receive /\ UNCHANGED <<logic, sending, reader, answers>>
FairSpec ==
  /\ Spec
  /\ WF_vars(Defined /\ (Delivers \/ Reading))
  /\ WF_vars(Defined /\ \E t \in IoThreads : PostBegin(t))
  /\ SF_vars(Defined /\ \E t \in IoThreads : PostLock(t))
  /\ WF_vars(Defined /\ \E t \in IoThreads : Posting(t))
  /\ WF_vars(Defined /\ Worker)
  /\ WF_vars(Defined /\ Socket)
  /\ WF_vars(Defined /\ WriteHandlerBegin)
  /\ \A t \in IoThreads : WF_vars(Defined /\ WriteHandler(t))

---------------------------------------------------------------------------
(* Safety. *)

NodesOfLogic == processed \o m_logic_que

(* The messages read, in whole, are the messages posted, and the node of   *)
(* LogicSystem's n-th message is the reader's n-th node, also while the    *)
(* mutex is held; a response answers a message posted.                     *)
InStep ==
  /\ Len(NodesOfLogic) =
       Len(posted) + (IF \E t \in IoThreads : poster[t] = "notify" THEN 1 ELSE 0)
  /\ \A i \in DOMAIN NodesOfLogic : NodesOfLogic[i].no = i
  /\ \A i \in DOMAIN answers : answers[i] <= Len(posted)

(* The callback, which gets a pointer into the RecvNode, sees the whole    *)
(* body of the request and nothing of a later one.                         *)
HandlerSeesRequest ==
  worker = "handler" =>
    LET n == Head(m_logic_que).no
    IN n \in DOMAIN nodes /\ nodes[n].body = R!BodyOf(sent[n])

(* To its peer the session, with all its threads and queues, is a          *)
(* SessionService, races or not.  A message with an unregistered id counts *)
(* as handled when it is dropped.                                          *)
Handled == Len(processed) + (IF worker = "handler" THEN 1 ELSE 0)
Service == INSTANCE SessionService
             WITH requests <- sent, begun <- Handled, Request <- R!Frame,
                  responses <- [i \in DOMAIN wire |-> answers[wire[i]]]
ServesPeer == Service!Spec

(* As long as no send has overlapped a write_handler, the peer gets the    *)
(* responses in the order of its requests, at most one to each, and none   *)
(* to a message without a registered id.                                   *)
ResponsesInRequestOrder ==
  ~raced =>
    /\ Service!InOrder
    /\ \A i \in DOMAIN wire : NodesOfLogic[answers[wire[i]]].id \in L!Registered

(* Each module, checked alone, allows everything that the others do to it: *)
(* a close by the other half of the session, a post, a call of send.  The  *)
(* reader's CloseByWriter expects that a write answers a message posted.   *)
PartsImplemented == R!Spec /\ L!Spec /\ S!Spec

---------------------------------------------------------------------------
(* Liveness, of FairSpec. *)

Responded(k) == \E i \in DOMAIN wire : answers[wire[i]] = k
(* send dropped the response, the queue being over its limit.              *)
Refused(k) == k \in answered /\ ~\E i \in DOMAIN answers : answers[i] = k

(* As long as no send has overlapped a write_handler, every message sent   *)
(* is processed some time, and a test request then answered, or its answer *)
(* refused, unless the session ends.                                       *)
TestAnsweredUnlessRaced ==
  []~raced =>
    []<>(\/ eof \/ m_is_stop
         \/ /\ Len(processed) = Len(sent)
            /\ \A k \in DOMAIN processed :
                 processed[k].id = "E_ID_TEST_MSG_REQ" => Responded(k) \/ Refused(k))
=============================================================================
