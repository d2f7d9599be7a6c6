------------------------- MODULE LogicSystemProofs -------------------------
(***************************************************************************)
(* Proofs about LogicSystem: its inductive invariant, the exclusion and    *)
(* wake-up properties that follow from it, and the implementation of the   *)
(* FIFO channel.                                                           *)
(***************************************************************************)
EXTENDS LogicSystem, SequenceTheorems, TLAPS

InCritical(p) == poster[p] \in {"push", "notify"}

(* Who holds the mutex, as long as the object lives. *)
MutexInv ==
  /\ worker \in {"pred", "sleep", "front", "handler"} => m_mutex = "worker"
  /\ \A p \in Posters : InCritical(p) => m_mutex = p

(* ... and whoever holds it is inside a critical section, which it leaves  *)
(* without waiting for anybody, or was cut off by the end of the object:   *)
(* no path returns, continues or breaks with the mutex held.               *)
HolderInv ==
  /\ m_mutex = "worker" => worker \in {"pred", "sleep", "front", "handler"}
  /\ \A p \in Posters : m_mutex = p => InCritical(p) \/ poster[p] = "dangling"
  /\ \A p \in Posters : poster[p] = "dangling" => life = "gone"

(* What the worker knows of the queue at each place in deal_message, and   *)
(* that nothing is posted before it has started.                           *)
WorkerInv ==
  /\ worker = "none" <=> life = "unborn"
  /\ life = "unborn" => m_logic_que = <<>> /\ \A p \in Posters : ~InCritical(p)
  /\ worker = "front" => m_logic_que # <<>> \/ m_is_stop
  /\ worker = "handler" => m_logic_que # <<>>
  /\ life = "gone" => worker = "exited"

(* The inductive invariant: Spec => []IInv. *)
IInv == TypeOK /\ MutexInv /\ HolderInv /\ WorkerInv /\ NoLostWakeup

---------------------------------------------------------------------------

(* What popping the front does to the queue and to the history together.   *)
LEMMA PopFrontProperties ==
  ASSUME TypeOK, m_logic_que # <<>>, PopFront
  PROVE  /\ m_logic_que' \in Seq(LogicNode)
         /\ processed' \in Seq(LogicNode)
         /\ processed' \o m_logic_que' = processed \o m_logic_que
  BY DEF TypeOK, PopFront

(* A node built by PostPush is a LogicNode. *)
LEMMA NewNodeType ==
  ASSUME TypeOK, NEW id \in ReqIds
  PROVE  [no |-> NodeNumber, id |-> id] \in LogicNode
  BY DEF TypeOK, NodeNumber, LogicNode

(* The initial state satisfies the inductive invariant. *)
LEMMA InitIInv == Init => IInv
  BY PostersAssumption DEF Init, IInv, TypeOK, MutexInv, HolderInv, WorkerInv, NoLostWakeup, InCritical

(* Every step of the io threads, of the worker and of the destructor       *)
(* preserves the inductive invariant.                                      *)
LEMMA StepIInv == IInv /\ [Next]_vars => IInv'
<1> SUFFICES ASSUME IInv, [Next]_vars PROVE IInv'
  OBVIOUS
<1> USE PostersAssumption DEF IInv, MutexInv, HolderInv, WorkerInv, NoLostWakeup, InCritical, m_is_stop
<1>1. CASE Construct
  BY <1>1 DEF Construct, TypeOK
<1>2. ASSUME NEW p \in Posters, PostLock(p) PROVE IInv'
  BY <1>2 DEF PostLock, TypeOK
<1>3. ASSUME NEW p \in Posters, PostPush(p) PROVE IInv'
  <2>1. PICK id \in ReqIds :
          m_logic_que' = Append(m_logic_que, [no |-> NodeNumber, id |-> id])
    BY <1>3 DEF PostPush
  <2>2. m_logic_que' \in Seq(LogicNode) /\ m_logic_que' # <<>>
    BY <2>1, NewNodeType, AppendProperties DEF TypeOK
  <2>3. TypeOK'
    BY <1>3, <2>2 DEF PostPush, TypeOK
  <2>4. MutexInv' /\ HolderInv' /\ WorkerInv'
    BY <1>3, <2>2 DEF PostPush, TypeOK
  <2>5. NoLostWakeup'
    BY <1>3, <2>2 DEF PostPush, WasEmpty, TypeOK
  <2> QED
    BY <2>3, <2>4, <2>5
<1>4. ASSUME NEW p \in Posters, PostNotify(p) PROVE IInv'
  BY <1>4 DEF PostNotify, NotifyWorker, TypeOK
<1>5. ASSUME NEW p \in Posters, DanglingPost(p) PROVE IInv'
  BY <1>5 DEF DanglingPost, TypeOK
<1>6. CASE WorkerLock
  BY <1>6 DEF WorkerLock, TypeOK
<1>7. CASE WorkerPredicate
  BY <1>7 DEF WorkerPredicate, TypeOK
<1>8. CASE WorkerBlock
  BY <1>8 DEF WorkerBlock, TypeOK
<1>9. CASE SpuriousWakeup
  BY <1>9 DEF SpuriousWakeup, TypeOK
<1>10. CASE WorkerDrop
  BY <1>10, PopFrontProperties DEF WorkerDrop, PopFront, TypeOK
<1>11. CASE WorkerCall
  BY <1>11 DEF WorkerCall, TypeOK
<1>12. CASE WorkerReturn
  <2>1. m_logic_que # <<>>
    BY <1>12 DEF WorkerReturn
  <2>2. Head(m_logic_que) \in LogicNode
    BY <2>1, HeadTailProperties DEF TypeOK
  <2>3. Head(m_logic_que).no \in Nat
    BY <2>2 DEF LogicNode
  <2>4. answered' \in SUBSET Nat
    BY <1>12, <2>3 DEF WorkerReturn, Callback, TypeOK
  <2> QED
    BY <1>12, <2>1, <2>4, PopFrontProperties DEF WorkerReturn, EndOfTurn, TypeOK
<1>13. CASE WorkerNoWork
  BY <1>13 DEF WorkerNoWork, EndOfTurn, TypeOK
<1>14. CASE DtorStop
  BY <1>14 DEF DtorStop, TypeOK
<1>15. CASE DtorNotify
  BY <1>15 DEF DtorNotify, NotifyWorker, TypeOK
<1>16. CASE DtorJoin
  BY <1>16 DEF DtorJoin, TypeOK
<1>17. CASE UNCHANGED vars
  BY <1>17 DEF vars, TypeOK
<1> QED
  BY <1>1, <1>2, <1>3, <1>4, <1>5, <1>6, <1>7, <1>8, <1>9, <1>10, <1>11, <1>12,
     <1>13, <1>14, <1>15, <1>16, <1>17 DEF Next, WorkerNext

(* The inductive invariant holds in every reachable state.                 *)
THEOREM Invariant == Spec => []IInv
  BY InitIInv, StepIInv, PTL DEF Spec

(* Type correctness: every variable keeps the type the code gives it.      *)
THEOREM TypeCorrect == Spec => []TypeOK
<1>1. IInv => TypeOK
  BY DEF IInv
<1> QED
  BY <1>1, Invariant, PTL

(* deal_message and post_message_to_logic_system exclude one another, the  *)
(* handlers' reference to the front of m_logic_que included, for any       *)
(* number of io threads and messages, and through the destructor.          *)
THEOREM Exclusion == Spec => []QueueExclusive
<1>1. IInv => QueueExclusive
  BY PostersAssumption DEF IInv, MutexInv, InCritical, QueueExclusive
<1> QED
  BY <1>1, Invariant, PTL

(* Notifying only when the queue was empty never strands the worker beside *)
(* a message.                                                              *)
THEOREM WakeupKept == Spec => []NoLostWakeup
<1>1. IInv => NoLostWakeup
  BY DEF IInv
<1> QED
  BY <1>1, Invariant, PTL

(* The mutex is held by nobody but a thread inside a critical section, so  *)
(* whoever waits for it, in a post or in deal_message, waits for a thread  *)
(* that itself waits for nothing.                                          *)
THEOREM MutexReleased == Spec => []HolderInv
<1>1. IInv => HolderInv
  BY DEF IInv
<1> QED
  BY <1>1, Invariant, PTL

(* A thread whose next step waits for nobody: the worker inside its        *)
(* critical section, or about to take a free mutex, or an io thread that   *)
(* is about to release the mutex, or to notify, for which the worker waits.*)
WorkGoesOn ==
  \/ worker \in {"pred", "sleep", "front", "handler"}
  \/ worker \in {"lock", "woken"} /\ m_mutex = "free"
  \/ worker \in {"lock", "woken"} /\ \E p \in Posters : m_mutex = p /\ InCritical(p)
  \/ worker = "blocked" /\ \E p \in Posters : poster[p] = "notify"

(* While there is a message and the worker has not left, somebody can go   *)
(* on with it: posts, waits, spurious wake-ups and the destructor in any   *)
(* order leave no message between threads that wait for one another.       *)
THEOREM NeverStuck == Spec => [](m_logic_que # <<>> /\ worker # "exited" => WorkGoesOn)
<1>1. IInv => (m_logic_que # <<>> /\ worker # "exited" => WorkGoesOn)
  BY DEF IInv, TypeOK, HolderInv, WorkerInv, NoLostWakeup, WorkGoesOn
<1> QED
  BY <1>1, Invariant, PTL

(* After notify_all the worker no longer waits, nor will it again, ...     *)
Notified == life = "join" => worker \notin {"sleep", "blocked"}
(* ... unless the destructor overtook it between predicate and wait.       *)
Overtaken == life = "join" /\ worker = "sleep"

(* ~LogicSystem's notify_all is missed in no other way than by falling     *)
(* between the worker's predicate and its wait: the safety half of         *)
(* StopExitsUnlessMissed, for any number of io threads that post meanwhile.*)
THEOREM StopNotMissed == Spec => ([]~Overtaken => []Notified)
<1> USE DEF Notified, Overtaken
<1>1. Init => Notified
  BY DEF Init
<1>2. TypeOK /\ Notified /\ ~Overtaken /\ [Next]_vars => Notified' \/ Overtaken'
  <2> SUFFICES ASSUME TypeOK, Notified, ~Overtaken, [Next]_vars
               PROVE  Notified' \/ Overtaken'
    OBVIOUS
  <2>1. CASE UNCHANGED <<life, worker>>
    BY <2>1
  <2>2. CASE \/ Construct \/ SpuriousWakeup \/ WorkerLock \/ WorkerPredicate
             \/ WorkerBlock \/ WorkerDrop \/ WorkerCall \/ WorkerReturn \/ WorkerNoWork
    BY <2>2 DEF Construct, SpuriousWakeup, WorkerLock, WorkerPredicate, WorkerBlock, WorkerDrop,
       WorkerCall, WorkerReturn, WorkerNoWork, EndOfTurn, m_is_stop
  <2>3. ASSUME NEW p \in Posters, PostNotify(p) PROVE Notified'
    BY <2>3 DEF PostNotify, NotifyWorker
  <2>4. CASE DtorStop \/ DtorNotify \/ DtorJoin
    BY <2>4 DEF DtorStop, DtorNotify, DtorJoin, NotifyWorker
  <2>5. ASSUME NEW p \in Posters, PostLock(p) \/ PostPush(p) \/ DanglingPost(p)
        PROVE  UNCHANGED <<life, worker>>
    BY <2>5 DEF PostLock, PostPush, DanglingPost
  <2> QED
    BY <2>1, <2>2, <2>3, <2>4, <2>5 DEF Next, WorkerNext, vars
<1> QED
  BY <1>1, <1>2, TypeCorrect, PTL DEF Spec

---------------------------------------------------------------------------

(* m_logic_que implements the FIFO channel: each step of the program is a  *)
(* Put (post_message_to_logic_system's push), a Get (deal_message's pop)   *)
(* or changes neither end.                                                 *)
LEMMA InitChannel == Init => Channel!Init
  BY DEF Init, Channel!Init

LEMMA StepChannel == IInv /\ [Next]_vars => [Channel!Next]_(Channel!vars)
<1> SUFFICES ASSUME IInv, [Next]_vars
             PROVE  Channel!Next \/ UNCHANGED Channel!vars
  OBVIOUS
<1> DEFINE put == processed \o m_logic_que
<1> USE DEF Channel!Next, Channel!vars
<1>1. ASSUME NEW p \in Posters, PostPush(p) PROVE Channel!Put
  <2>1. PICK id \in ReqIds :
          m_logic_que' = Append(m_logic_que, [no |-> NodeNumber, id |-> id])
    BY <1>1 DEF PostPush
  <2> DEFINE node == [no |-> NodeNumber, id |-> id]
  <2>2. node \in LogicNode
    BY NewNodeType DEF IInv
  <2> HIDE DEF node
  <2>3. m_logic_que' = Append(m_logic_que, node) /\ processed' = processed
    BY <1>1, <2>1 DEF PostPush, node
  <2>4. m_logic_que \in Seq(LogicNode) /\ processed \in Seq(LogicNode)
    BY DEF IInv, TypeOK
  <2>5. put' = Append(put, node)
    BY <2>2, <2>3, <2>4
  <2>6. put \in Seq(LogicNode)
    BY <2>4
  <2>7. Len(put') = Len(put) + 1 /\ put'[Len(put')] = node
    BY <2>2, <2>5, <2>6
  <2> QED
    BY <2>2, <2>3, <2>5, <2>7 DEF Channel!Put
<1>2. ASSUME m_logic_que # <<>>, PopFront PROVE Channel!Get
  <2>1. m_logic_que \in Seq(LogicNode) /\ processed \in Seq(LogicNode)
    BY DEF IInv, TypeOK
  <2>2. put' = put
    BY <1>2, PopFrontProperties DEF IInv
  <2>3. Len(m_logic_que) > 0
    BY <1>2, <2>1
  <2>4. Len(processed) < Len(put) /\ put[Len(processed) + 1] = Head(m_logic_que)
    BY <2>1, <2>3
  <2> QED
    BY <1>2, <2>2, <2>4 DEF Channel!Get, PopFront
<1>3. CASE \E p \in Posters : PostPush(p)
  BY <1>1, <1>3
<1>4. CASE WorkerDrop \/ WorkerReturn
  BY <1>2, <1>4 DEF WorkerDrop, WorkerReturn, IInv, WorkerInv
<1>5. CASE UNCHANGED <<m_logic_que, processed>>
  BY <1>5
<1>6. ASSUME NEW p \in Posters, PostLock(p) \/ PostNotify(p) \/ DanglingPost(p)
      PROVE  UNCHANGED <<m_logic_que, processed>>
  BY <1>6 DEF PostLock, PostNotify, DanglingPost
<1>7. CASE \/ Construct \/ WorkerLock \/ WorkerPredicate \/ WorkerBlock
           \/ WorkerCall \/ WorkerNoWork \/ SpuriousWakeup
           \/ DtorStop \/ DtorNotify \/ DtorJoin \/ UNCHANGED vars
  BY <1>5, <1>7 DEF Construct, WorkerLock, WorkerPredicate, WorkerBlock, WorkerCall,
     WorkerNoWork, SpuriousWakeup, DtorStop, DtorNotify, DtorJoin, vars
<1> QED
  BY <1>3, <1>4, <1>5, <1>6, <1>7 DEF Next, WorkerNext

(* The queue of LogicSystem implements the FIFO channel: handled in the    *)
(* order of posting, each message once.                                    *)
THEOREM ImplementsChannel == Spec => HandledInPostOrder
  BY InitChannel, StepChannel, Invariant, PTL DEF Spec, HandledInPostOrder, Channel!Spec
=============================================================================
