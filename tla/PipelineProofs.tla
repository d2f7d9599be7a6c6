-------------------------- MODULE PipelineProofs --------------------------
(***************************************************************************)
(* Proofs about one session end to end, for any number of io threads and   *)
(* messages: every part keeps its own specification and so its invariant,  *)
(* and the messages, the nodes and the responses of the parts correspond.  *)
(***************************************************************************)
EXTENDS Pipeline, FiniteSetTheorems, SequenceTheorems, TLAPS

(* The io thread that posts is the one reader has, and the message that it *)
(* posts stays the one in m_data until it is done.                         *)
PostingInv ==
  /\ reader \in IoThreads \cup {"asio"}
  /\ \A t \in IoThreads : poster[t] # "idle" => reader = t
  /\ reader # "asio" => MessageRead

(* send runs inside a callback; answered and calls count the callbacks.    *)
CallbackInv ==
  /\ answered \in SUBSET (1..Len(processed)) /\ IsFiniteSet(answered)
  /\ calls >= Cardinality(answered) /\ calls <= Cardinality(answered) + 1
  /\ HasCalled => worker = "handler"
  /\ sender.pc # "idle" => HasCalled
  /\ worker = "handler" => Head(m_logic_que).id \in L!Registered

(* Every accepted response answers another message, in order; the last one *)
(* may answer the message whose callback runs.                             *)
AnsweredUpTo ==
  Len(processed) + (IF HasCalled /\ sender.pc # "push" THEN 1 ELSE 0)
AnswersInv ==
  /\ answers \in Seq(Nat) /\ Len(answers) = accepted
  /\ \A i \in DOMAIN answers :
       /\ answers[i] \in DOMAIN NodesOfLogic /\ answers[i] <= AnsweredUpTo
       /\ NodesOfLogic[answers[i]].id \in L!Registered
       /\ \A j \in 1..(i - 1) : answers[j] < answers[i]

(* The inductive invariant: Spec => []IInv. *)
IInv ==
  /\ R!IInv /\ L!IInv /\ S!IInv
  /\ PostingInv /\ CallbackInv /\ AnswersInv /\ InStep

(* What the parts assume of their constants. *)
LEMMA PartsAssumption ==
  R!LenAssumption /\ S!SendAssumption /\ L!PostersAssumption /\ L!MaxPostsAssumption
  BY PipelineAssumption DEF S!SendAssumption, L!PostersAssumption, L!MaxPostsAssumption

(* Every response that is written or on the wire is one of those in        *)
(* answers.                                                                *)
LEMMA WireAnswers ==
  ASSUME IInv
  PROVE  /\ wire \in Seq(Nat) /\ answers \in Seq(Nat)
         /\ \A i \in DOMAIN wire : wire[i] \in DOMAIN answers
         /\ \A w \in DOMAIN writes : writes[w].no \in DOMAIN answers
<1>1. /\ wire \in Seq(S!Response) /\ answers \in Seq(Nat) /\ Len(answers) = accepted
      /\ writes \in Seq([no : S!Response, status : S!Status])
  BY DEF IInv, S!IInv, S!TypeOK, AnswersInv
<1>2. /\ \A i \in DOMAIN wire : wire[i] <= accepted
      /\ \A w \in DOMAIN writes : writes[w].no <= accepted
  BY DEF IInv, S!IInv, S!AcceptedInv
<1>3. \A w \in DOMAIN writes : writes[w].no \in S!Response
  <2>1. S!SendAssumption /\ S!TypeOK
    BY PartsAssumption DEF IInv, S!IInv
  <2> QED
    BY <2>1, S!WriteType
<1>4. \A i \in DOMAIN wire : wire[i] \in S!Response
  BY <1>1
<1> QED
  BY <1>1, <1>2, <1>3, <1>4 DEF S!Response

---------------------------------------------------------------------------
(* Every step is a step of each module, or does not concern it. *)

(* The worker's posts, and nothing else, concern LogicSystem.              *)
LEMMA StepL == [Next]_vars => [L!Next]_(L!vars)
<1> SUFFICES ASSUME [Next]_vars PROVE [L!Next]_(L!vars)
  OBVIOUS
<1>1. CASE UNCHANGED logic
  BY <1>1 DEF logic, L!vars
<1>2. CASE WorkerTurn
  BY <1>2 DEF WorkerTurn, L!Next, L!WorkerNext
<1>3. CASE \E t \in IoThreads : PostLock(t)
  BY <1>3 DEF PostLock, L!Next
<1>4. CASE \E t \in IoThreads : Posting(t)
  BY <1>4 DEF Posting, L!Next
<1>5. CASE CallbackReturn
  BY <1>5 DEF CallbackReturn, L!Next, L!WorkerNext
<1>6. CASE SpuriousWakeup
  BY <1>6 DEF SpuriousWakeup, L!Next
<1> QED
  BY <1>1, <1>2, <1>3, <1>4, <1>5, <1>6 DEF Next, Peer, Reading, PostBegin, Worker,
     CallbackSend, CallbackPush, CallbackWrite, Socket, WriteHandlerBegin, WriteHandler, vars

(* A failed read closes the session, and with it the socket that is        *)
(* written: CloseByReader of the sending half.                             *)
LEMMA StepS == R!TypeOK /\ [Next]_vars => [S!Next]_(S!vars)
<1> SUFFICES ASSUME R!TypeOK, [Next]_vars PROVE [S!Next]_(S!vars)
  OBVIOUS
<1> USE DEF Defined
<1>1. CASE UNCHANGED <<sending, m_is_stop>>
  BY <1>1 DEF sending, S!vars
<1>2. CASE Defined /\ Reading
  <2>1. CASE R!HeadHandler \/ R!BodyHandler
    BY <1>1, <1>2, <2>1 DEF Reading, R!HeadHandler, R!BodyHandler
  <2>2. CASE R!ReadError
    <3>1. m_is_stop \in BOOLEAN /\ m_is_stop' = TRUE /\ UNCHANGED sending
      BY <1>2, <2>2 DEF Reading, R!ReadError, R!TypeOK
    <3>2. CASE m_is_stop = FALSE
      BY <1>2, <3>1, <3>2 DEF S!Next, S!CloseByReader, sending
    <3> QED
      BY <1>1, <3>1, <3>2
  <2> QED
    BY <1>2, <2>1, <2>2 DEF Reading
<1>3. CASE Defined /\ (CallbackSend \/ CallbackPush \/ CallbackWrite)
  BY <1>3 DEF CallbackSend, CallbackPush, CallbackWrite, S!Next, S!SenderStep
<1>4. CASE Defined /\ Socket
  BY <1>4 DEF Socket, S!Next
<1>5. CASE Defined /\ WriteHandlerBegin
  BY <1>5 DEF WriteHandlerBegin, S!Next, S!HandlerBegin
<1>6. CASE Defined /\ \E t \in IoThreads : WriteHandler(t)
  BY <1>6 DEF WriteHandler, S!Next
<1>7. CASE Peer
  BY <1>1, <1>7 DEF Peer, R!ClientSend, R!ClientClose, R!Receive
<1>8. CASE \E t \in IoThreads : Posting(t)
  BY <1>1, <1>8 DEF Posting, R!BodyHandler
<1> QED
  BY <1>1, <1>2, <1>3, <1>4, <1>5, <1>6, <1>7, <1>8 DEF Next, Worker, WorkerTurn, CallbackReturn,
     PostBegin, PostLock, SpuriousWakeup, vars

(* A failed write closes the session under the reader, which has posted    *)
(* the message that was answered: CloseByWriter of the reading half.       *)
LEMMA StepR == IInv /\ [Next]_vars => [R!Next]_(R!vars)
<1> SUFFICES ASSUME IInv, [Next]_vars PROVE [R!Next]_(R!vars)
  OBVIOUS
<1> USE DEF Defined
<1>1. CASE UNCHANGED <<reading, m_is_stop>>
  BY <1>1 DEF reading, R!vars
<1>2. CASE Defined /\ (Peer \/ Reading)
  BY <1>2 DEF Peer, Reading, R!Next, R!Session
<1>3. CASE Defined /\ \E t \in IoThreads : Posting(t)
  BY <1>1, <1>3 DEF Posting, R!Next, R!Session
<1>4. CASE CallbackSend \/ CallbackPush \/ CallbackWrite
  BY <1>1, <1>4 DEF CallbackSend, CallbackPush, CallbackWrite, S!SendBegin, S!SendPush, S!SendWrite
<1>5. CASE Socket
  BY <1>1, <1>5 DEF Socket, S!SocketStep, S!Transmit, S!WriteFails
<1>6. CASE Defined /\ WriteHandlerBegin
  <2>1. PICK t \in IoThreads, w \in DOMAIN writes : S!HandlerPop(t, w) \/ S!HandlerError(t, w)
    BY <1>6 DEF WriteHandlerBegin
  <2>2. UNCHANGED reading
    BY <1>6 DEF WriteHandlerBegin
  <2>3. CASE S!HandlerPop(t, w)
    BY <1>1, <2>2, <2>3 DEF S!HandlerPop
  <2>4. CASE S!HandlerError(t, w)
    <3>1. posted # <<>>
      <4>1. writes[w].no \in DOMAIN answers /\ answers \in Seq(Nat)
        BY <2>1, WireAnswers
      <4>2. 1 \in DOMAIN answers
        BY <4>1
      <4>3. answers[1] \in DOMAIN NodesOfLogic /\ answers[1] <= Len(posted)
        BY <4>2 DEF IInv, AnswersInv, InStep
      <4> QED
        BY <4>3 DEF IInv, L!IInv, L!TypeOK, NodesOfLogic
    <3>2. m_is_stop \in BOOLEAN /\ m_is_stop' = TRUE
      BY <2>4 DEF S!HandlerError, IInv, S!IInv, S!TypeOK
    <3>3. CASE m_is_stop = FALSE
      BY <1>6, <2>2, <3>1, <3>2, <3>3 DEF R!Next, R!CloseByWriter, reading
    <3> QED
      BY <1>1, <2>2, <3>2, <3>3
  <2> QED
    BY <2>1, <2>3, <2>4
<1>7. CASE \E t \in IoThreads : WriteHandler(t)
  BY <1>1, <1>7 DEF WriteHandler, S!HandlerStep, S!HandlerEmpty, S!HandlerWrite
<1> QED
  BY <1>1, <1>2, <1>3, <1>4, <1>5, <1>6, <1>7 DEF Next, Worker, WorkerTurn, CallbackReturn,
     PostBegin, PostLock, SpuriousWakeup, vars

(* So each part keeps its own inductive invariant. *)
LEMMA PartsKeep == IInv /\ [Next]_vars => R!IInv' /\ L!IInv' /\ S!IInv'
<1> SUFFICES ASSUME IInv, [Next]_vars PROVE R!IInv' /\ L!IInv' /\ S!IInv'
  OBVIOUS
<1>1. R!LenAssumption /\ S!SendAssumption /\ L!PostersAssumption /\ L!MaxPostsAssumption
  BY PartsAssumption
<1>2. R!IInv /\ L!IInv /\ S!IInv /\ R!TypeOK
  BY DEF IInv, R!IInv
<1>3. R!IInv'
  BY <1>1, <1>2, StepR, R!StepIInv
<1>4. L!IInv'
  BY <1>1, <1>2, StepL, L!StepIInv
<1>5. S!IInv'
  BY <1>1, <1>2, StepS, S!StepIInv
<1> QED
  BY <1>3, <1>4, <1>5

---------------------------------------------------------------------------
(* LogicSystem's nodes. *)

LEMMA NodesType ==
  ASSUME L!TypeOK
  PROVE  /\ NodesOfLogic \in Seq(L!LogicNode)
         /\ Len(NodesOfLogic) = Len(processed) + Len(m_logic_que)
         /\ m_logic_que # <<>> => /\ Len(processed) + 1 \in DOMAIN NodesOfLogic
                                 /\ NodesOfLogic[Len(processed) + 1] = Head(m_logic_que)
  BY DEF L!TypeOK, NodesOfLogic

(* A post puts one more node at the end, with the next number.             *)
LEMMA PostAppends ==
  ASSUME L!TypeOK, NEW t \in IoThreads, L!PostPush(t)
  PROVE  \E id \in L!ReqIds :
           NodesOfLogic' = Append(NodesOfLogic, [no |-> Len(NodesOfLogic) + 1, id |-> id])
<1>1. PICK id \in L!ReqIds :
        m_logic_que' = Append(m_logic_que, [no |-> L!NodeNumber, id |-> id])
  BY DEF L!PostPush
<1>2. L!NodeNumber = Len(NodesOfLogic) + 1 /\ processed' = processed
  BY NodesType DEF L!NodeNumber, L!PostPush
<1> DEFINE node == [no |-> Len(NodesOfLogic) + 1, id |-> id]
<1>3. node \in L!LogicNode
  BY NodesType DEF L!LogicNode
<1> HIDE DEF node
<1>4. m_logic_que' = Append(m_logic_que, node)
  BY <1>1, <1>2 DEF node
<1>5. NodesOfLogic' = Append(NodesOfLogic, node)
  BY <1>2, <1>3, <1>4 DEF NodesOfLogic, L!TypeOK
<1> QED
  BY <1>5 DEF node

(* The worker moves nodes from the queue to the history, no more.          *)
LEMMA WorkerKeepsNodes ==
  ASSUME L!IInv, WorkerTurn \/ SpuriousWakeup \/ CallbackReturn
  PROVE  NodesOfLogic' = NodesOfLogic
<1>1. CASE UNCHANGED <<processed, m_logic_que>>
  BY <1>1 DEF NodesOfLogic
<1>2. CASE L!PopFront /\ m_logic_que # <<>>
  <2>1. L!TypeOK /\ m_logic_que # <<>> /\ L!PopFront
    BY <1>2 DEF L!IInv
  <2>2. L!PostersAssumption /\ L!MaxPostsAssumption
    BY PartsAssumption
  <2> QED
    BY <2>1, <2>2, L!PopFrontProperties DEF NodesOfLogic
<1> QED
  BY <1>1, <1>2 DEF WorkerTurn, SpuriousWakeup, CallbackReturn, L!Construct, L!WorkerLock,
     L!WorkerPredicate, L!WorkerBlock, L!WorkerDrop, L!WorkerCall, L!WorkerNoWork,
     L!SpuriousWakeup, L!WorkerReturn, L!IInv, L!WorkerInv

---------------------------------------------------------------------------
(* The posting thread. *)

(* The handler of the last piece of a message posts it.                    *)
LEMMA WholeIsPosted ==
  ASSUME R!IInv, MessageRead, R!BodyHandler
  PROVE  posted' \in Seq(Nat) /\ Len(posted') = Len(posted) + 1
<1>1. PICK node : node = [R!m_recv_node EXCEPT !.body = @ \o m_data]
  OBVIOUS
<1>2. R!m_recv_node \in R!RecvNode /\ m_data \in Seq(Nat)
  BY DEF R!m_recv_node, R!IInv, R!InBody, R!TypeOK, MessageRead, R!Complete
<1>3. R!is_fulled(node)
  BY <1>1, <1>2 DEF R!is_fulled, R!RecvNode, MessageRead
<1>4. posted' = Append(posted, Len(nodes))
  BY <1>1, <1>3 DEF R!BodyHandler
<1> QED
  BY <1>4 DEF R!IInv, R!TypeOK

(* While a whole message waits in m_data, no handler of asio runs.         *)
LEMMA ReadyStays ==
  ASSUME R!IInv, MessageRead, Peer \/ Reading
  PROVE  MessageRead'
<1> USE DEF R!IInv
<1>1. read.kind = "body" /\ Len(m_data) = read.want /\ read.want \in Nat
  BY DEF MessageRead, R!Complete, R!TypeOK
<1>2. ~R!Receive
  <2>1. R!Written \in Nat /\ consumed \in Nat
    <3>1. R!LenAssumption
      BY PartsAssumption
    <3>2. R!Written = R!End(Len(sent)) /\ R!End(Len(sent)) \in Nat
      BY <3>1, R!WrittenIsEnd DEF R!TypeOK
    <3> QED
      BY <3>2 DEF R!TypeOK
  <2> QED
    BY <1>1, <2>1 DEF R!Receive, R!Minimum, R!TypeOK
<1>3. ~R!HeadHandler /\ ~R!ReadError
  BY <1>1 DEF R!HeadHandler, R!Complete, R!ReadError
<1>4. ~(R!BodyHandler /\ posted' = posted)
  BY WholeIsPosted DEF R!TypeOK
<1> QED
  BY <1>2, <1>3, <1>4 DEF Peer, Reading, R!ClientSend, R!ClientClose, MessageRead, R!Complete,
     R!m_recv_node

(* A post in progress is the reader's, of the message in m_data. *)
LEMMA StepPosting == IInv /\ [Next]_vars => PostingInv'
<1> SUFFICES ASSUME IInv, [Next]_vars PROVE PostingInv'
  OBVIOUS
<1> USE DEF IInv, PostingInv
<1>1. CASE UNCHANGED <<reader, poster, read, m_data, nodes>>
  BY <1>1 DEF MessageRead, R!Complete, R!m_recv_node
<1>2. CASE Peer \/ Reading
  <2>1. UNCHANGED <<reader, poster>>
    BY <1>2 DEF Peer, Reading, logic
  <2> QED
    BY <1>2, <2>1, ReadyStays
<1>3. ASSUME NEW t \in IoThreads, PostBegin(t) PROVE PostingInv'
  <2>1. MessageRead'
    BY <1>3 DEF PostBegin, reading, MessageRead, R!Complete, R!m_recv_node
  <2> QED
    BY <1>3, <2>1, PipelineAssumption DEF PostBegin, logic
<1>4. ASSUME NEW t \in IoThreads, PostLock(t) PROVE PostingInv'
  <2>1. MessageRead' <=> MessageRead
    BY <1>4 DEF PostLock, reading, MessageRead, R!Complete, R!m_recv_node
  <2> QED
    BY <1>4, <2>1, PipelineAssumption DEF PostLock, L!PostLock, L!IInv, L!TypeOK
<1>5. ASSUME NEW t \in IoThreads, Posting(t) PROVE PostingInv'
  <2>1. poster[t] # "idle" /\ \A u \in IoThreads \ {t} : poster'[u] = poster[u]
    BY <1>5 DEF Posting, L!PostPush, L!PostNotify, L!IInv, L!TypeOK
  <2>2. reader = t /\ \A u \in IoThreads \ {t} : poster'[u] = "idle"
    BY <2>1
  <2>3. CASE poster'[t] = "idle"
    BY <1>5, <2>2, <2>3, PipelineAssumption DEF Posting
  <2>4. CASE poster'[t] # "idle"
    <3>1. UNCHANGED <<reading, reader>>
      BY <1>5, <2>4 DEF Posting
    <3>2. MessageRead' <=> MessageRead
      BY <3>1 DEF reading, MessageRead, R!Complete, R!m_recv_node
    <3> QED
      BY <2>2, <3>1, <3>2
  <2> QED
    BY <2>3, <2>4
<1>6. CASE WorkerTurn \/ SpuriousWakeup \/ CallbackReturn
  BY <1>1, <1>6 DEF WorkerTurn, SpuriousWakeup, CallbackReturn, reading, L!Construct, L!WorkerLock,
     L!WorkerPredicate, L!WorkerBlock, L!WorkerDrop, L!WorkerCall, L!WorkerNoWork,
     L!SpuriousWakeup, L!WorkerReturn
<1>7. CASE \/ CallbackSend \/ CallbackPush \/ CallbackWrite \/ Socket \/ WriteHandlerBegin
           \/ \E t \in IoThreads : WriteHandler(t)
  BY <1>1, <1>7 DEF CallbackSend, CallbackPush, CallbackWrite, Socket, WriteHandlerBegin,
     WriteHandler, reading, logic
<1> QED
  BY <1>1, <1>2, <1>3, <1>4, <1>5, <1>6, <1>7 DEF Next, Worker, vars, reading, logic

---------------------------------------------------------------------------
(* The numbers of the parts. *)

(* While a callback runs no post is in progress, and the front of the      *)
(* queue is one of the messages posted.                                    *)
LEMMA InCallback ==
  ASSUME IInv, worker = "handler"
  PROVE  /\ m_logic_que # <<>> /\ Len(processed) \in Nat
         /\ Head(m_logic_que) = NodesOfLogic[Len(processed) + 1]
         /\ Len(processed) + 1 \in DOMAIN NodesOfLogic
         /\ Head(m_logic_que).no = Len(processed) + 1
         /\ Len(NodesOfLogic) = Len(posted)
<1>1. L!TypeOK /\ m_logic_que # <<>>
  BY DEF IInv, L!IInv, L!WorkerInv
<1>2. \A t \in IoThreads : poster[t] # "notify"
  BY PipelineAssumption DEF IInv, L!IInv, L!MutexInv, L!InCritical
<1>3. Len(processed) \in Nat /\ Len(posted) \in Nat
  BY DEF IInv, R!IInv, R!TypeOK, L!IInv, L!TypeOK
<1>4. Len(NodesOfLogic) = Len(posted)
  BY <1>2, <1>3 DEF IInv, InStep
<1> QED
  BY <1>1, <1>3, <1>4, NodesType DEF IInv, InStep

LEMMA StepInStep == IInv /\ [Next]_vars => InStep'
<1> SUFFICES ASSUME IInv, [Next]_vars PROVE InStep'
  OBVIOUS
<1>1. /\ NodesOfLogic \in Seq(L!LogicNode) /\ posted \in Seq(Nat) /\ answers \in Seq(Nat)
      /\ L!TypeOK
  BY NodesType DEF IInv, L!IInv, R!IInv, R!TypeOK, AnswersInv
<1>2. CASE UNCHANGED <<NodesOfLogic, posted, answers, poster>>
  BY <1>2 DEF IInv, InStep
<1>3. CASE Peer \/ Reading
  <2>1. UNCHANGED <<posted, answers, poster, NodesOfLogic>>
    BY <1>3 DEF Peer, Reading, logic, NodesOfLogic, R!ClientSend, R!ClientClose, R!Receive,
       R!HeadHandler, R!ReadError
  <2> QED
    BY <1>2, <2>1
<1>4. ASSUME NEW t \in IoThreads, PostLock(t) PROVE InStep'
  <2>1. UNCHANGED <<NodesOfLogic, posted, answers>>
    BY <1>4 DEF PostLock, L!PostLock, NodesOfLogic, reading
  <2>2. \A u \in IoThreads : poster'[u] = "notify" <=> poster[u] = "notify"
    BY <1>1, <1>4 DEF PostLock, L!PostLock, L!TypeOK
  <2> QED
    BY <2>1, <2>2 DEF IInv, InStep
<1>5. ASSUME NEW t \in IoThreads, Posting(t) PROVE InStep'
  <2>1. /\ poster[t] \in {"push", "notify"} /\ reader = t
        /\ \A u \in IoThreads \ {t} : poster'[u] = poster[u] /\ poster[u] = "idle"
    BY <1>1, <1>5 DEF Posting, L!PostPush, L!PostNotify, L!TypeOK, IInv, PostingInv
  <2>2. answers' = answers
    BY <1>5 DEF Posting
  <2>3. MessageRead /\ R!IInv
    BY <2>1, PipelineAssumption DEF IInv, PostingInv
  <2>4. poster'[t] = "idle" => posted' \in Seq(Nat) /\ Len(posted') = Len(posted) + 1
    BY <1>5, <2>3, WholeIsPosted DEF Posting
  <2>5. poster'[t] # "idle" => posted' = posted
    BY <1>5 DEF Posting, reading
  <2>6. CASE L!PostPush(t)
    <3>1. PICK id \in L!ReqIds :
            NodesOfLogic' = Append(NodesOfLogic, [no |-> Len(NodesOfLogic) + 1, id |-> id])
      BY <1>1, <2>6, PostAppends
    <3>2. /\ Len(NodesOfLogic') = Len(NodesOfLogic) + 1
          /\ \A i \in DOMAIN NodesOfLogic' : NodesOfLogic'[i].no = i
      <4> DEFINE node == [no |-> Len(NodesOfLogic) + 1, id |-> id]
      <4>1. node \in L!LogicNode /\ node.no = Len(NodesOfLogic) + 1
        BY <1>1 DEF L!LogicNode
      <4>2. NodesOfLogic' = Append(NodesOfLogic, node)
        BY <3>1
      <4> HIDE DEF node
      <4> QED
        BY <1>1, <4>1, <4>2 DEF IInv, InStep
    <3>3. poster[t] = "push" /\ poster'[t] \in {"idle", "notify"}
      BY <1>1, <2>6 DEF L!PostPush, L!TypeOK
    <3>4. ~\E u \in IoThreads : poster[u] = "notify"
      BY <2>1, <3>3
    <3>5. Len(NodesOfLogic') = Len(posted) + 1
      BY <1>1, <3>2, <3>4 DEF IInv, InStep
    <3>6. (\E u \in IoThreads : poster'[u] = "notify") <=> poster'[t] = "notify"
      BY <2>1
    <3>7. \A i \in DOMAIN answers' : answers'[i] <= Len(posted')
      BY <1>1, <2>2, <2>4, <2>5 DEF IInv, InStep
    <3> QED
      BY <1>1, <2>4, <2>5, <3>2, <3>3, <3>5, <3>6, <3>7 DEF InStep
  <2>7. CASE L!PostNotify(t)
    <3>1. poster[t] = "notify" /\ poster'[t] = "idle" /\ NodesOfLogic' = NodesOfLogic
      BY <1>1, <2>7 DEF L!PostNotify, L!TypeOK, NodesOfLogic
    <3>2. Len(NodesOfLogic) = Len(posted) + 1
      BY <3>1 DEF IInv, InStep
    <3>3. ~\E u \in IoThreads : poster'[u] = "notify"
      BY <2>1, <3>1
    <3>4. \A i \in DOMAIN answers' : answers'[i] <= Len(posted')
      BY <1>1, <2>2, <2>4, <2>5 DEF IInv, InStep
    <3> QED
      BY <1>1, <2>4, <3>1, <3>2, <3>3, <3>4 DEF IInv, InStep
  <2> QED
    BY <1>5, <2>6, <2>7 DEF Posting
<1>6. CASE WorkerTurn \/ SpuriousWakeup \/ CallbackReturn
  <2>1. NodesOfLogic' = NodesOfLogic
    BY <1>6, WorkerKeepsNodes DEF IInv
  <2>2. UNCHANGED <<posted, answers, poster>>
    BY <1>6 DEF WorkerTurn, SpuriousWakeup, CallbackReturn, reading, L!Construct, L!WorkerLock,
     L!WorkerPredicate, L!WorkerBlock, L!WorkerDrop, L!WorkerCall, L!WorkerNoWork,
     L!SpuriousWakeup, L!WorkerReturn
  <2> QED
    BY <1>2, <2>1, <2>2
<1>7. CASE CallbackPush
  <2>1. UNCHANGED <<NodesOfLogic, posted, poster>> /\ answers' = Append(answers, Head(m_logic_que).no)
    BY <1>7 DEF CallbackPush, reading, logic, NodesOfLogic
  <2>2. worker = "handler"
    BY <1>7 DEF CallbackPush, S!SendPush, IInv, CallbackInv
  <2>3. Head(m_logic_que).no \in Nat /\ Head(m_logic_que).no <= Len(posted)
    BY <1>1, <2>2, InCallback
  <2>4. \A i \in DOMAIN answers' : answers'[i] <= Len(posted')
    BY <1>1, <2>1, <2>3 DEF IInv, InStep
  <2> QED
    BY <2>1, <2>4 DEF IInv, InStep
<1>8. CASE \/ CallbackSend \/ CallbackWrite \/ Socket \/ WriteHandlerBegin
           \/ \E t \in IoThreads : WriteHandler(t) \/ PostBegin(t)
  BY <1>2, <1>8 DEF CallbackSend, CallbackWrite, Socket, WriteHandlerBegin,
     WriteHandler, PostBegin, reading, logic, NodesOfLogic
<1> QED
  BY <1>2, <1>3, <1>4, <1>5, <1>6, <1>7, <1>8 DEF Next, Worker, vars, reading, logic, NodesOfLogic

---------------------------------------------------------------------------
(* The callbacks and their responses. *)

(* Outside of a callback nothing is being sent, and no post is in progress *)
(* inside one.                                                             *)
LEMMA OutsideCallback ==
  ASSUME IInv
  PROVE  /\ worker # "handler" => ~HasCalled /\ sender.pc = "idle"
         /\ (\E t \in IoThreads : Posting(t)) => worker # "handler"
<1>1. ASSUME NEW t \in IoThreads, Posting(t) PROVE worker # "handler"
  BY <1>1, PipelineAssumption DEF Posting, L!PostPush, L!PostNotify, IInv, L!IInv, L!MutexInv, L!InCritical
<1> QED
  BY <1>1 DEF IInv, CallbackInv

(* What the steps of the worker outside of a callback do.                  *)
LEMMA WorkerSteps ==
  ASSUME L!IInv, WorkerTurn \/ SpuriousWakeup
  PROVE  /\ worker # "handler" /\ UNCHANGED <<answered, calls, sender, answers, accepted>>
         /\ Len(processed) \in Nat /\ Len(processed') \in Nat /\ Len(processed') >= Len(processed)
         /\ worker' = "handler" => Head(m_logic_que').id \in L!Registered
<1>1. CASE UNCHANGED <<processed, m_logic_que>> /\ worker' # "handler"
  <2>1. worker # "handler" /\ UNCHANGED answered
    BY <1>1 DEF WorkerTurn, SpuriousWakeup, L!Construct, L!WorkerLock, L!WorkerPredicate,
       L!WorkerBlock, L!WorkerDrop, L!WorkerCall, L!WorkerNoWork, L!SpuriousWakeup,
       L!IInv, L!WorkerInv
  <2>2. UNCHANGED <<calls, sender, answers, accepted>>
    BY DEF WorkerTurn, SpuriousWakeup, sending
  <2> QED
    BY <1>1, <2>1, <2>2 DEF L!IInv, L!TypeOK
<1>2. CASE L!WorkerCall
  BY <1>2 DEF WorkerTurn, SpuriousWakeup, L!WorkerCall, sending, L!IInv, L!TypeOK
<1>3. CASE L!WorkerDrop
  BY <1>3 DEF WorkerTurn, SpuriousWakeup, L!WorkerDrop, L!PopFront, sending, L!IInv, L!TypeOK
<1> QED
  BY <1>1, <1>2, <1>3 DEF WorkerTurn, SpuriousWakeup, L!Construct, L!WorkerLock,
     L!WorkerPredicate, L!WorkerBlock, L!WorkerDrop, L!WorkerNoWork, L!SpuriousWakeup, L!EndOfTurn

(* What the end of a callback does.                                        *)
LEMMA ReturnStep ==
  ASSUME IInv, CallbackReturn
  PROVE  /\ Len(processed) \in Nat /\ Len(processed') = Len(processed) + 1
         /\ answered' = IF HasCalled THEN answered \cup {Len(processed) + 1} ELSE answered
         /\ answered \subseteq 1..Len(processed) /\ IsFiniteSet(answered)
         /\ worker' # "handler" /\ sender.pc = "idle"
         /\ UNCHANGED <<calls, sender, answers, accepted>>
<1>1. L!WorkerReturn /\ HasCalled = (answered' # answered)
  BY DEF CallbackReturn
<1>2. Head(m_logic_que).no = Len(processed) + 1 /\ Len(processed) \in Nat
  BY <1>1, InCallback DEF L!WorkerReturn
<1>3. answered \subseteq 1..Len(processed) /\ IsFiniteSet(answered)
  BY DEF IInv, CallbackInv
<1>4. answered' = answered \cup {Len(processed) + 1} \/ answered' = answered
  BY <1>1, <1>2 DEF L!WorkerReturn, L!Callback
<1>5. answered' = IF HasCalled THEN answered \cup {Len(processed) + 1} ELSE answered
  BY <1>1, <1>4
<1>6. Len(processed') = Len(processed) + 1
  BY <1>1, <1>2, InCallback DEF L!WorkerReturn, L!PopFront, IInv, L!IInv, L!TypeOK
<1> QED
  BY <1>1, <1>2, <1>3, <1>5, <1>6 DEF CallbackReturn, L!WorkerReturn, L!EndOfTurn, sending

(* calls is one ahead of answered at most, and only inside a callback.     *)
LEMMA ReturnCounts ==
  ASSUME IInv, CallbackReturn
  PROVE  IsFiniteSet(answered') /\ calls' = Cardinality(answered')
<1>1. Len(processed) + 1 \notin answered
  BY ReturnStep
<1>2. CASE HasCalled
  <2>1. IsFiniteSet(answered') /\ Cardinality(answered') = Cardinality(answered) + 1
    BY <1>1, <1>2, ReturnStep, FS_AddElement
  <2> QED
    BY <1>2, <2>1, ReturnStep, FS_CardinalityType DEF IInv, CallbackInv, HasCalled, S!IInv, S!TypeOK
<1>3. CASE ~HasCalled
  BY <1>3, ReturnStep, FS_CardinalityType DEF IInv, CallbackInv, HasCalled, S!IInv, S!TypeOK
<1> QED
  BY <1>2, <1>3

LEMMA StepCallback == IInv /\ [Next]_vars => CallbackInv'
<1> SUFFICES ASSUME IInv, [Next]_vars PROVE CallbackInv'
  OBVIOUS
<1>1. /\ calls \in Nat /\ Cardinality(answered) \in Nat /\ Len(processed) \in Nat
      /\ sender \in [pc : {"idle", "push", "write"}, que_size : Nat]
  BY FS_CardinalityType DEF IInv, CallbackInv, S!IInv, S!TypeOK, L!IInv, L!TypeOK
<1>2. CASE UNCHANGED <<answered, processed, calls, worker, sender, m_logic_que>>
  BY <1>2 DEF IInv, CallbackInv, HasCalled
<1>3. ASSUME NEW t \in IoThreads, Posting(t) PROVE CallbackInv'
  <2>1. worker # "handler" /\ worker' # "handler"
    BY <1>3, OutsideCallback DEF Posting, L!PostPush, L!PostNotify, L!NotifyWorker
  <2>2. UNCHANGED <<answered, processed, calls, sender>>
    BY <1>3 DEF Posting, L!PostPush, L!PostNotify, sending
  <2> QED
    BY <2>1, <2>2, OutsideCallback DEF IInv, CallbackInv, HasCalled
<1>4. CASE WorkerTurn \/ SpuriousWakeup
  <2>1. /\ worker # "handler" /\ UNCHANGED <<answered, calls, sender>>
        /\ Len(processed') \in Nat /\ Len(processed') >= Len(processed)
        /\ worker' = "handler" => Head(m_logic_que').id \in L!Registered
    BY <1>4, WorkerSteps DEF IInv
  <2> QED
    BY <1>1, <2>1, OutsideCallback DEF IInv, CallbackInv, HasCalled
<1>5. CASE CallbackSend
  <2>1. /\ worker = "handler" /\ ~HasCalled /\ calls' = calls + 1
        /\ UNCHANGED <<answered, processed, worker, m_logic_que>>
    BY <1>5 DEF CallbackSend, S!SendBegin, logic
  <2> QED
    BY <1>1, <2>1 DEF IInv, CallbackInv, HasCalled
<1>6. CASE CallbackPush \/ CallbackWrite
  <2>1. sender.pc # "idle" /\ UNCHANGED <<answered, processed, calls, worker, m_logic_que>>
    BY <1>6 DEF CallbackPush, CallbackWrite, S!SendPush, S!SendWrite, logic
  <2> QED
    BY <1>1, <2>1 DEF IInv, CallbackInv, HasCalled
<1>7. CASE CallbackReturn
  <2>1. answered' \in SUBSET (1..Len(processed'))
    BY <1>7, ReturnStep
  <2>2. calls' = calls /\ calls' = Cardinality(answered') /\ IsFiniteSet(answered')
    BY <1>7, ReturnStep, ReturnCounts
  <2>3. worker' # "handler" /\ sender'.pc = "idle"
    BY <1>7, ReturnStep
  <2> QED
    BY <1>1, <2>1, <2>2, <2>3 DEF CallbackInv, HasCalled
<1>8. CASE Socket \/ WriteHandlerBegin \/ \E t \in IoThreads : WriteHandler(t)
  BY <1>2, <1>8 DEF Socket, WriteHandlerBegin, WriteHandler, logic, S!SocketStep, S!Transmit,
     S!WriteFails, S!HandlerPop, S!HandlerError, S!HandlerStep, S!HandlerEmpty, S!HandlerWrite
<1>9. CASE Peer \/ Reading \/ \E t \in IoThreads : PostBegin(t) \/ PostLock(t)
  BY <1>2, <1>9 DEF Peer, Reading, PostBegin, PostLock, L!PostLock, logic, sending
<1> QED
  BY <1>2, <1>3, <1>4, <1>5, <1>6, <1>7, <1>8, <1>9 DEF Next, Worker, vars, logic, sending

(* The answers of before stay right as long as the nodes stay.             *)
LEMMA AnswersStay ==
  ASSUME AnswersInv, UNCHANGED <<answers, accepted>>,
         AnsweredUpTo \in Int, AnsweredUpTo' \in Int, AnsweredUpTo <= AnsweredUpTo',
         \A i \in DOMAIN NodesOfLogic :
           i \in DOMAIN NodesOfLogic' /\ NodesOfLogic'[i] = NodesOfLogic[i]
  PROVE  AnswersInv'
<1>1. /\ answers' = answers /\ accepted' = accepted
      /\ answers \in Seq(Nat) /\ Len(answers) = accepted
  BY DEF AnswersInv
<1>2. ASSUME NEW i \in DOMAIN answers
      PROVE  /\ answers[i] \in DOMAIN NodesOfLogic' /\ answers[i] <= AnsweredUpTo'
             /\ NodesOfLogic'[answers[i]].id \in L!Registered
             /\ \A j \in 1..(i - 1) : answers[j] < answers[i]
  <2>1. /\ answers[i] \in DOMAIN NodesOfLogic /\ answers[i] <= AnsweredUpTo
        /\ NodesOfLogic[answers[i]].id \in L!Registered
        /\ \A j \in 1..(i - 1) : answers[j] < answers[i]
    BY <1>2 DEF AnswersInv
  <2>2. answers[i] \in Nat
    BY <1>1, <1>2
  <2> QED
    BY <2>1, <2>2
<1> QED
  BY <1>1, <1>2 DEF AnswersInv

LEMMA StepAnswers == IInv /\ [Next]_vars => AnswersInv'
<1> SUFFICES ASSUME IInv, [Next]_vars PROVE AnswersInv'
  OBVIOUS
<1>1. /\ Len(processed) \in Nat /\ L!TypeOK /\ AnswersInv
      /\ sender \in [pc : {"idle", "push", "write"}, que_size : Nat]
  BY DEF IInv, S!IInv, S!TypeOK, L!IInv, L!TypeOK
<1>2. CASE UNCHANGED <<answers, accepted, NodesOfLogic, processed, calls, answered, sender>>
  BY <1>1, <1>2, AnswersStay DEF AnsweredUpTo, HasCalled
<1>3. ASSUME NEW t \in IoThreads, Posting(t) PROVE AnswersInv'
  <2>1. UNCHANGED <<answers, accepted, processed, calls, answered, sender>>
    BY <1>3 DEF Posting, L!PostPush, L!PostNotify, sending
  <2>2. CASE L!PostPush(t)
    <3>1. PICK id \in L!ReqIds :
            NodesOfLogic' = Append(NodesOfLogic, [no |-> Len(NodesOfLogic) + 1, id |-> id])
      BY <1>1, <2>2, PostAppends
    <3>2. \A i \in DOMAIN NodesOfLogic :
            i \in DOMAIN NodesOfLogic' /\ NodesOfLogic'[i] = NodesOfLogic[i]
      <4>1. PICK node : node = [no |-> Len(NodesOfLogic) + 1, id |-> id]
        OBVIOUS
      <4> QED
        BY <1>1, <3>1, <4>1, NodesType DEF L!LogicNode
    <3> QED
      BY <1>1, <2>1, <3>2, AnswersStay DEF AnsweredUpTo, HasCalled
  <2>3. CASE L!PostNotify(t)
    BY <1>2, <2>1, <2>3 DEF L!PostNotify, NodesOfLogic
  <2> QED
    BY <1>3, <2>2, <2>3 DEF Posting
<1>4. CASE WorkerTurn \/ SpuriousWakeup
  <2>1. /\ worker # "handler" /\ UNCHANGED <<answered, calls, sender, answers, accepted>>
        /\ Len(processed') \in Nat /\ Len(processed') >= Len(processed)
    BY <1>4, WorkerSteps DEF IInv
  <2>2. NodesOfLogic' = NodesOfLogic
    BY <1>4, WorkerKeepsNodes DEF IInv
  <2>3. /\ AnsweredUpTo \in Int /\ AnsweredUpTo' \in Int
        /\ AnsweredUpTo <= AnsweredUpTo'
    BY <1>1, <2>1, OutsideCallback DEF AnsweredUpTo, HasCalled
  <2> QED
    BY <1>1, <2>1, <2>2, <2>3, AnswersStay
<1>5. CASE CallbackSend
  <2>1. ~HasCalled /\ UNCHANGED <<answers, accepted, processed, NodesOfLogic>>
    BY <1>5 DEF CallbackSend, S!SendBegin, logic, NodesOfLogic
  <2>2. /\ AnsweredUpTo \in Int /\ AnsweredUpTo' \in Int
        /\ AnsweredUpTo <= AnsweredUpTo'
    BY <1>1, <2>1 DEF AnsweredUpTo
  <2> QED
    BY <1>1, <2>1, <2>2, AnswersStay
<1>6. CASE CallbackPush
  <2>1. /\ sender.pc = "push" /\ sender'.pc # "push" /\ accepted' = accepted + 1
        /\ UNCHANGED <<processed, calls, answered, NodesOfLogic>>
        /\ answers' = Append(answers, Head(m_logic_que).no)
    BY <1>1, <1>6 DEF CallbackPush, S!SendPush, S!Idle, logic, NodesOfLogic
  <2>2. HasCalled /\ worker = "handler" /\ Head(m_logic_que).id \in L!Registered
    BY <2>1 DEF IInv, CallbackInv
  <2>3. /\ AnsweredUpTo = Len(processed) /\ AnsweredUpTo' = Len(processed) + 1
        /\ answers' = Append(answers, Len(processed) + 1)
        /\ Len(processed) + 1 \in DOMAIN NodesOfLogic
        /\ NodesOfLogic[Len(processed) + 1].id \in L!Registered
    BY <1>1, <2>1, <2>2, InCallback DEF AnsweredUpTo, HasCalled
  <2>4. answers \in Seq(Nat) /\ Len(answers) = accepted
    BY <1>1 DEF AnswersInv
  <2>5. answers' \in Seq(Nat) /\ Len(answers') = accepted'
    BY <1>1, <2>1, <2>3, <2>4
  <2>6. ASSUME NEW i \in DOMAIN answers'
        PROVE  /\ answers'[i] \in DOMAIN NodesOfLogic' /\ answers'[i] <= AnsweredUpTo'
               /\ NodesOfLogic'[answers'[i]].id \in L!Registered
               /\ \A j \in 1..(i - 1) : answers'[j] < answers'[i]
    <3>1. \A j \in DOMAIN answers : answers[j] \in Nat /\ answers[j] <= Len(processed)
      BY <1>1, <2>3, <2>4 DEF AnswersInv
    <3>2. CASE i \in DOMAIN answers
      <4>1. answers'[i] = answers[i] /\ \A j \in 1..(i - 1) : answers'[j] = answers[j]
        BY <1>1, <2>3, <2>4, <3>2
      <4> QED
        BY <1>1, <2>1, <2>3, <3>1, <3>2, <4>1 DEF AnswersInv
    <3>3. CASE i \notin DOMAIN answers
      <4>1. /\ answers'[i] = Len(processed) + 1
            /\ \A j \in 1..(i - 1) : j \in DOMAIN answers /\ answers'[j] = answers[j]
        BY <1>1, <2>3, <2>4, <2>6, <3>3
      <4> QED
        BY <1>1, <2>1, <2>3, <3>1, <4>1
    <3> QED
      BY <3>2, <3>3
  <2> QED
    BY <2>5, <2>6 DEF AnswersInv
<1>7. CASE CallbackWrite
  <2>1. /\ sender.pc = "write" /\ sender'.pc # "push"
        /\ UNCHANGED <<answers, accepted, processed, calls, answered, NodesOfLogic>>
    BY <1>7 DEF CallbackWrite, S!SendWrite, S!Idle, logic, NodesOfLogic
  <2> QED
    BY <1>1, <2>1, AnswersStay DEF AnsweredUpTo, HasCalled
<1>8. CASE CallbackReturn
  <2>1. NodesOfLogic' = NodesOfLogic /\ UNCHANGED <<answers, accepted>>
    BY <1>8, WorkerKeepsNodes, ReturnStep DEF IInv
  <2>2. Len(processed') = Len(processed) + 1
    BY <1>8, ReturnStep
  <2>3. /\ AnsweredUpTo \in Int /\ AnsweredUpTo' \in Int
        /\ AnsweredUpTo <= AnsweredUpTo'
    BY <1>1, <2>2 DEF AnsweredUpTo
  <2> QED
    BY <1>1, <2>1, <2>3, AnswersStay
<1>9. CASE Socket \/ WriteHandlerBegin \/ \E t \in IoThreads : WriteHandler(t)
  BY <1>2, <1>9 DEF Socket, WriteHandlerBegin, WriteHandler, logic, NodesOfLogic, S!SocketStep,
     S!Transmit, S!WriteFails, S!HandlerPop, S!HandlerError, S!HandlerStep, S!HandlerEmpty,
     S!HandlerWrite
<1>10. CASE Peer \/ Reading \/ \E t \in IoThreads : PostBegin(t) \/ PostLock(t)
  BY <1>2, <1>10 DEF Peer, Reading, PostBegin, PostLock, L!PostLock, logic, sending, NodesOfLogic
<1> QED
  BY <1>2, <1>3, <1>4, <1>5, <1>6, <1>7, <1>8, <1>9, <1>10 DEF Next, Worker, vars, logic, sending,
     NodesOfLogic

---------------------------------------------------------------------------
(* The theorems. *)

LEMMA InitIInv == Init => IInv
<1> SUFFICES ASSUME Init PROVE IInv
  OBVIOUS
<1>1. R!IInv /\ L!IInv /\ S!IInv
  <2>1. R!LenAssumption /\ S!SendAssumption /\ L!PostersAssumption /\ L!MaxPostsAssumption
    BY PartsAssumption
  <2> QED
    BY <2>1, R!InitIInv, L!InitIInv, S!InitIInv DEF Init
<1>2. PostingInv
  BY DEF Init, L!Init, S!Init, PostingInv
<1>3. Cardinality(answered) = 0 /\ IsFiniteSet(answered)
  BY FS_EmptySet DEF Init, L!Init
<1>4. CallbackInv
  BY <1>3 DEF Init, L!Init, S!Init, S!Idle, CallbackInv, HasCalled
<1>5. AnswersInv
  BY DEF Init, S!Init, AnswersInv
<1>6. NodesOfLogic = <<>>
  BY DEF Init, L!Init, NodesOfLogic
<1>7. InStep
  BY <1>6 DEF Init, R!Init, L!Init, InStep
<1> QED
  BY <1>1, <1>2, <1>4, <1>5, <1>7 DEF IInv

LEMMA StepIInv == IInv /\ [Next]_vars => IInv'
<1> SUFFICES ASSUME IInv, [Next]_vars PROVE IInv'
  OBVIOUS
<1> QED
  BY PartsKeep, StepPosting, StepCallback, StepAnswers, StepInStep
  DEF IInv

(* The inductive invariant of the composition, for any number of threads   *)
(* and messages, any lengths and any limits.                               *)
THEOREM Invariant == Spec => []IInv
  BY InitIInv, StepIInv, PTL DEF Spec

(* Every part keeps its own specification in the composition: what a part  *)
(* lets its environment do is what the other parts do.                     *)
THEOREM Parts == Spec => PartsImplemented
<1>1. Init => R!Init /\ L!Init /\ S!Init
  BY DEF Init
<1>2. IInv /\ [Next]_vars => [R!Next]_(R!vars) /\ [L!Next]_(L!vars) /\ [S!Next]_(S!vars)
  BY StepR, StepL, StepS DEF IInv, R!IInv
<1> QED
  BY <1>1, <1>2, Invariant, PTL DEF Spec, PartsImplemented, R!Spec, L!Spec, S!Spec

(* A message keeps its number from the RecvNode to the LogicNode, and only *)
(* messages posted are answered.                                           *)
THEOREM NodesInStep == Spec => []InStep
<1>1. IInv => InStep
  BY DEF IInv
<1> QED
  BY <1>1, Invariant, PTL

(* A callback sees its request, whole, whatever is being read meanwhile.   *)
THEOREM RequestSeen == Spec => []HandlerSeesRequest
<1>1. IInv => HandlerSeesRequest
  <2> SUFFICES ASSUME IInv, worker = "handler"
               PROVE  LET n == Head(m_logic_que).no
                      IN n \in DOMAIN nodes /\ nodes[n].body = R!BodyOf(sent[n])
    BY DEF HandlerSeesRequest
  <2>1. Head(m_logic_que).no \in 1..Len(posted)
    BY InCallback DEF IInv, R!IInv, R!TypeOK
  <2> QED
    BY <2>1 DEF IInv, R!IInv, R!TypeOK, R!PostedWhole
<1> QED
  BY <1>1, Invariant, PTL

(* Until a send overlaps a write_handler, the peer gets its responses in   *)
(* the order of its requests, at most one to each.                         *)
THEOREM RequestOrder == Spec => []ResponsesInRequestOrder
<1>1. IInv => ResponsesInRequestOrder
  <2> SUFFICES ASSUME IInv, ~raced, NEW i \in DOMAIN wire
               PROVE  /\ NodesOfLogic[answers[wire[i]]].id \in L!Registered
                      /\ \A j \in 1..(i - 1) : j \in DOMAIN wire /\ answers[wire[j]] < answers[wire[i]]
    BY DEF ResponsesInRequestOrder, Service!InOrder
  <2>1. wire \in Seq(Nat) /\ answers \in Seq(Nat) /\ Len(answers) = accepted
    BY DEF IInv, S!IInv, S!TypeOK, S!Response, AnswersInv
  <2>2. Len(wire) <= accepted /\ \A k \in DOMAIN wire : wire[k] = k
    <3>1. S!SendAssumption /\ S!IInv
      BY PartsAssumption DEF IInv
    <3> QED
      BY <3>1, S!SplitOrder DEF S!InOrderUnlessRaced
  <2>3. i \in DOMAIN answers /\ \A j \in 1..(i - 1) : j \in DOMAIN wire
    BY <2>1, <2>2
  <2> QED
    BY <2>2, <2>3 DEF IInv, AnswersInv
<1> QED
  BY <1>1, Invariant, PTL

---------------------------------------------------------------------------
(* The session is a SessionService. *)

(* A message that the worker finds in the queue was sent by the peer.      *)
LEMMA WorkWasSent ==
  ASSUME IInv, worker \in {"front", "handler"}, m_logic_que # <<>>
  PROVE  Len(processed) < Len(sent)
<1>1. \A t \in IoThreads : poster[t] # "notify"
  BY PipelineAssumption DEF IInv, L!IInv, L!MutexInv, L!InCritical
<1>2. Len(NodesOfLogic) = Len(posted) + 0
  BY <1>1 DEF IInv, InStep
<1>3. Len(posted) \in Nat /\ Len(sent) \in Nat /\ Len(posted) <= Len(sent)
  BY DEF IInv, R!IInv, R!TypeOK, R!PostedWhole
<1>4. L!TypeOK /\ m_logic_que \in Seq(L!LogicNode) /\ Len(processed) \in Nat
  BY DEF IInv, L!IInv, L!TypeOK
<1>5. Len(m_logic_que) > 0
  BY <1>4
<1> QED
  BY <1>2, <1>3, <1>4, <1>5, NodesType

(* An accepted response answers a message whose handler has been entered.  *)
LEMMA AnswersHandled ==
  ASSUME IInv
  PROVE  \A i \in DOMAIN answers : answers[i] \in 1..Handled
<1> SUFFICES ASSUME NEW i \in DOMAIN answers PROVE answers[i] \in 1..Handled
  OBVIOUS
<1>1. answers[i] \in DOMAIN NodesOfLogic /\ answers[i] <= AnsweredUpTo
  BY DEF IInv, AnswersInv
<1>2. answers[i] \in Nat /\ answers[i] >= 1
  BY <1>1, NodesType DEF IInv, L!IInv, L!TypeOK
<1>3. AnsweredUpTo <= Handled /\ AnsweredUpTo \in Nat /\ Handled \in Nat
  BY DEF IInv, CallbackInv, L!IInv, L!TypeOK, AnsweredUpTo, Handled
<1> QED
  BY <1>1, <1>2, <1>3

(* The steps that the peer does not see: the state of the service stays.   *)
LEMMA ServiceStays ==
  ASSUME UNCHANGED <<sent, processed, wire, answers>>,
         worker = "handler" <=> worker' = "handler"
  PROVE  UNCHANGED Service!vars
  BY DEF Service!vars, Handled

(* Every step of the session is a step of the service or a stutter: the    *)
(* peer's send an Ask, the worker's entry into a callback or its drop of a *)
(* message a Handle, the end of a transmission a Respond.                  *)
LEMMA StepService == IInv /\ IInv' /\ [Next]_vars => [Service!Next]_(Service!vars)
<1> SUFFICES ASSUME IInv, IInv', [Next]_vars PROVE Service!Next \/ UNCHANGED Service!vars
  OBVIOUS
<1> DEFINE responses == [i \in DOMAIN wire |-> answers[wire[i]]]
<1> USE DEF Service!Next
<1>1. CASE Peer
  <2>1. UNCHANGED <<processed, worker, wire, answers>>
    BY <1>1 DEF Peer, logic, sending
  <2>2. CASE R!ClientSend
    <3>1. PICK n \in Lengths : sent' = Append(sent, [start |-> R!Written, len |-> n])
      BY <2>2 DEF R!ClientSend
    <3>2. sent \in Seq(R!Frame) /\ sent' \in Seq(R!Frame)
      BY DEF IInv, R!IInv, R!TypeOK
    <3> DEFINE frame == [start |-> R!Written, len |-> n]
    <3> HIDE DEF frame
    <3>3. sent' = Append(sent, frame)
      BY <3>1 DEF frame
    <3>4. Len(sent') = Len(sent) + 1 /\ sent'[Len(sent')] = frame
      BY <3>2, <3>3
    <3>5. frame \in R!Frame
      BY <3>2, <3>4
    <3>6. Service!Ask
      BY <2>1, <3>3, <3>4, <3>5 DEF Service!Ask, Handled
    <3> QED
      BY <3>6
  <2>3. CASE R!ClientClose \/ R!Receive
    BY <2>1, <2>3, ServiceStays DEF R!ClientClose, R!Receive
  <2> QED
    BY <1>1, <2>2, <2>3 DEF Peer
<1>2. CASE Reading
  <2>1. UNCHANGED <<sent, processed, worker, wire, answers>>
    BY <1>2 DEF Reading, logic, sending, R!HeadHandler, R!ReadError, R!BodyHandler
  <2> QED
    BY <2>1, ServiceStays
<1>3. ASSUME NEW t \in IoThreads, PostBegin(t) \/ PostLock(t) PROVE UNCHANGED Service!vars
  BY <1>3, ServiceStays DEF PostBegin, PostLock, L!PostLock, reading, logic, sending
<1>4. ASSUME NEW t \in IoThreads, Posting(t) PROVE UNCHANGED Service!vars
  <2>1. worker # "handler" /\ worker' # "handler"
    BY <1>4, OutsideCallback DEF Posting, L!PostPush, L!PostNotify, L!NotifyWorker
  <2>2. UNCHANGED <<sent, processed, wire, answers>>
    BY <1>4 DEF Posting, L!PostPush, L!PostNotify, reading, sending, R!BodyHandler
  <2> QED
    BY <2>1, <2>2, ServiceStays
<1>5. ASSUME UNCHANGED <<sent, wire, answers>>, Handled' = Handled + 1,
             worker = "front", m_logic_que # <<>>, Len(processed) \in Nat
      PROVE  Service!Handle
  <2>1. Handled < Len(sent)
    BY <1>5, WorkWasSent DEF Handled
  <2> QED
    BY <1>5, <2>1 DEF Service!Handle
<1>6. CASE WorkerTurn \/ SpuriousWakeup
  <2>1. UNCHANGED <<sent, wire, answers>> /\ Len(processed) \in Nat
    BY <1>6 DEF WorkerTurn, SpuriousWakeup, reading, sending, IInv, L!IInv, L!TypeOK
  <2>2. CASE L!WorkerCall
    <3>1. Handled' = Handled + 1
      BY <2>1, <2>2 DEF Handled, L!WorkerCall
    <3> QED
      BY <1>5, <2>1, <2>2, <3>1 DEF L!WorkerCall
  <2>3. CASE L!WorkerDrop
    <3>1. Len(processed') = Len(processed) + 1
      BY <2>3 DEF L!WorkerDrop, L!PopFront, IInv, L!IInv, L!TypeOK
    <3>2. Handled' = Handled + 1
      BY <2>1, <2>3, <3>1 DEF Handled, L!WorkerDrop
    <3> QED
      BY <1>5, <2>1, <2>3, <3>2 DEF L!WorkerDrop
  <2>4. CASE \/ L!Construct \/ L!WorkerLock \/ L!WorkerPredicate \/ L!WorkerBlock
             \/ L!WorkerNoWork \/ L!SpuriousWakeup
    <3>1. UNCHANGED processed /\ worker # "handler" /\ worker' # "handler"
      BY <2>4 DEF L!Construct, L!WorkerLock, L!WorkerPredicate, L!WorkerBlock, L!WorkerNoWork,
         L!SpuriousWakeup, L!EndOfTurn, IInv, L!IInv, L!WorkerInv
    <3> QED
      BY <2>1, <3>1, ServiceStays
  <2> QED
    BY <1>6, <2>2, <2>3, <2>4 DEF WorkerTurn, SpuriousWakeup
<1>7. CASE CallbackSend \/ CallbackWrite
  BY <1>7, ServiceStays DEF CallbackSend, CallbackWrite, S!SendBegin, S!SendWrite, reading, logic
<1>8. CASE CallbackPush
  <2>1. /\ UNCHANGED <<sent, processed, worker, wire>>
        /\ answers' = Append(answers, Head(m_logic_que).no)
    BY <1>8 DEF CallbackPush, S!SendPush, reading, logic
  <2>2. \A i \in DOMAIN wire : answers'[wire[i]] = answers[wire[i]]
    BY <2>1, WireAnswers
  <2> QED
    BY <2>1, <2>2 DEF Service!vars, Handled
<1>9. CASE CallbackReturn
  <2>1. UNCHANGED <<sent, wire, answers>>
    BY <1>9 DEF CallbackReturn, reading, sending
  <2>2. Handled' = Handled
    BY <1>9, ReturnStep DEF CallbackReturn, L!WorkerReturn, Handled
  <2> QED
    BY <2>1, <2>2 DEF Service!vars
<1>10. CASE Socket
  <2>1. UNCHANGED <<sent, processed, worker, answers>>
    BY <1>10 DEF Socket, reading, logic
  <2>2. PICK w \in DOMAIN writes : S!Transmit(w) \/ S!WriteFails(w)
    BY <1>10 DEF Socket, S!SocketStep
  <2>3. wire' = wire \/ wire' = Append(wire, writes[w].no)
    BY <2>2, Zenon DEF S!Transmit, S!WriteFails
  <2>4. CASE wire' = Append(wire, writes[w].no)
    <3>1. writes[w].no \in DOMAIN answers /\ answers[writes[w].no] \in 1..Handled
      BY AnswersHandled, WireAnswers
    <3>2. responses \in Seq(Nat) /\ Len(responses) = Len(wire)
      BY WireAnswers
    <3>3. responses' = Append(responses, answers[writes[w].no])
      BY <2>1, <2>4, <3>1, <3>2, WireAnswers
    <3>4. Service!Respond
      BY <2>1, <3>1, <3>3 DEF Service!Respond, Handled
    <3> QED
      BY <3>4
  <2> QED
    BY <2>1, <2>3, <2>4, ServiceStays
<1>11. CASE WriteHandlerBegin \/ \E t \in IoThreads : WriteHandler(t)
  BY <1>11, ServiceStays DEF WriteHandlerBegin, WriteHandler, reading, logic, S!HandlerPop,
     S!HandlerError, S!HandlerStep, S!HandlerEmpty, S!HandlerWrite
<1>12. CASE UNCHANGED vars
  BY <1>12, ServiceStays DEF vars, reading, logic, sending
<1> QED
  BY <1>1, <1>2, <1>3, <1>4, <1>6, <1>7, <1>8, <1>9, <1>10, <1>11, <1>12 DEF Next, Worker

(* The session, its queues and threads and races included, serves its peer *)
(* as SessionService promises: every request handled in turn, once, and    *)
(* responses to nothing but requests whose handler has been entered.       *)
THEOREM Serves == Spec => ServesPeer
<1>1. Init => Service!Init
  BY DEF Init, R!Init, L!Init, S!Init, Service!Init, Handled
<1> QED
  BY <1>1, StepService, Invariant, PTL DEF Spec, ServesPeer, Service!Spec

---------------------------------------------------------------------------
(* The bound on the messages. *)

(* MaxMessages keeps neither the reader's thread from posting a whole      *)
(* message nor a callback from calling send.                               *)
OthersUnbounded ==
  /\ reader # "asio" /\ poster[reader] = "idle" => Len(NodesOfLogic) < MaxMessages
  /\ worker = "handler" /\ ~HasCalled => calls < MaxMessages

(* The bound on the messages holds back the peer and nobody else: what the *)
(* session does with the messages sent is what it does without a bound.    *)
THEOREM BoundsOfPeer == Spec => []OthersUnbounded
<1> DEFINE Bound == Len(sent) <= MaxMessages
<1>1. MaxMessages \in Nat
  BY PipelineAssumption DEF R!LenAssumption
<1>2. Init => Bound
  BY <1>1 DEF Init, R!Init
<1>3. IInv /\ Bound /\ [Next]_vars => Bound'
  <2> SUFFICES ASSUME IInv, Bound, [Next]_vars PROVE Bound'
    OBVIOUS
  <2>1. [R!Next]_(R!vars)
    BY StepR
  <2>2. CASE R!ClientSend
    BY <1>1, <2>2 DEF R!ClientSend, IInv, R!IInv, R!TypeOK
  <2>3. CASE sent' = sent
    BY <2>3
  <2> QED
    BY <2>1, <2>2, <2>3 DEF R!Next, R!vars, R!Session, R!ClientClose, R!Receive, R!HeadHandler,
       R!BodyHandler, R!ReadError, R!CloseByWriter
<1>4. IInv /\ Bound => OthersUnbounded
  <2> SUFFICES ASSUME IInv, Bound PROVE OthersUnbounded
    OBVIOUS
  <2>1. /\ Len(sent) \in Nat /\ Len(posted) \in Nat /\ Len(processed) \in Nat
        /\ calls \in Nat
    BY DEF IInv, R!IInv, R!TypeOK, L!IInv, L!TypeOK, S!IInv, S!TypeOK
  <2>2. ASSUME reader # "asio", poster[reader] = "idle"
        PROVE  Len(NodesOfLogic) < MaxMessages
    <3>1. \A t \in IoThreads : poster[t] # "notify"
      BY <2>2 DEF IInv, PostingInv
    <3>2. Len(NodesOfLogic) = Len(posted) + 0
      BY <3>1 DEF IInv, InStep
    <3>3. read.kind = "body"
      BY <2>2 DEF IInv, PostingInv, MessageRead, R!Complete
    <3>4. Len(posted) + 1 <= Len(sent)
      BY <3>3 DEF IInv, R!IInv, R!InBody
    <3> QED
      BY <1>1, <2>1, <3>2, <3>4
  <2>3. ASSUME worker = "handler", ~HasCalled PROVE calls < MaxMessages
    <3>1. m_logic_que # <<>>
      BY <2>3 DEF IInv, L!IInv, L!WorkerInv
    <3>2. Len(processed) < Len(sent)
      BY <2>3, <3>1, WorkWasSent
    <3>3. /\ answered \in SUBSET (1..Len(processed)) /\ IsFiniteSet(answered)
          /\ calls >= Cardinality(answered)
      BY DEF IInv, CallbackInv
    <3>4. 1 \in Int /\ Len(processed) \in Int
      BY <2>1
    <3>5. IsFiniteSet(1..Len(processed)) /\ Cardinality(1..Len(processed)) = Len(processed)
      <4>1. /\ IsFiniteSet(1..Len(processed))
            /\ Cardinality(1..Len(processed)) =
                 IF 1 > Len(processed) THEN 0 ELSE Len(processed) - 1 + 1
        BY <3>4, FS_Interval, Zenon
      <4> QED
        BY <2>1, <4>1
    <3>6. /\ Cardinality(answered) \in Nat
          /\ Cardinality(answered) <= Cardinality(1..Len(processed))
      BY <3>3, <3>5, FS_CardinalityType, FS_Subset, Zenon
    <3>7. calls = Cardinality(answered)
      BY <2>1, <2>3, <3>3, <3>6 DEF HasCalled
    <3> QED
      BY <1>1, <2>1, <3>2, <3>5, <3>7, <3>6
  <2> QED
    BY <2>2, <2>3 DEF OthersUnbounded
<1>5. Spec => []Bound
  BY <1>2, <1>3, Invariant, PTL DEF Spec
<1> QED
  BY <1>4, <1>5, Invariant, PTL
=============================================================================
