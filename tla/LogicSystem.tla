---------------------------- MODULE LogicSystem ----------------------------
(***************************************************************************)
(* LogicSystem (logicsystem.cpp): the queue between the io threads and the *)
(* one worker thread that runs the message handlers, its mutex, its        *)
(* condition variable, and its destruction as a function-local static      *)
(* while the io threads still run.                                         *)
(***************************************************************************)
EXTENDS Naturals, Sequences

CONSTANTS Posters,   \* the io threads, which post messages
          MaxPosts   \* bound on the messages posted in a behaviour

ASSUME PostersAssumption == Posters \cap {"free", "worker"} = {}
ASSUME MaxPostsAssumption == MaxPosts \in Nat

(* The message ids with a callback, and one id that stands for the others. *)
Registered == {"E_ID_TEST_MSG_REQ", "E_ID_UPLOAD_FILE_REQ"}
ReqIds == Registered \cup {"unregistered"}

(* A LogicNode: its message id, and its number in the order of posting,    *)
(* which tells equal messages apart.                                       *)
LogicNode == [no : Nat \ {0}, id : ReqIds]

VARIABLES
  m_logic_que,   \* the nodes posted and not yet popped
  m_mutex,       \* "free" or the thread that holds it
  life,          \* the singleton: "unborn", "live", then its destructor
                 \* ("stop", "join") and "gone"
  worker,        \* where deal_message is
  poster,        \* where each io thread is in post_message_to_logic_system
  processed,     \* history: the nodes popped, in order
  answered       \* history: the numbers of the nodes whose handler called send

vars == <<m_logic_que, m_mutex, life, worker, poster, processed, answered>>

(* m_is_stop is written once, by the destructor, without the mutex. *)
m_is_stop == life \in {"stop", "join", "gone"}

TypeOK ==
  /\ m_logic_que \in Seq(LogicNode)
  /\ m_mutex \in Posters \cup {"free", "worker"}
  /\ life \in {"unborn", "live", "stop", "join", "gone"}
  /\ worker \in {"none", "lock", "pred", "sleep", "blocked", "woken",
                 "front", "handler", "exited"}
  /\ poster \in [Posters -> {"idle", "push", "notify", "dangling"}]
  /\ processed \in Seq(LogicNode)
  /\ answered \in SUBSET Nat

Init ==
  /\ m_logic_que = <<>>
  /\ m_mutex = "free"
  /\ life = "unborn"
  /\ worker = "none"
  /\ poster = [p \in Posters |-> "idle"]
  /\ processed = <<>>
  /\ answered = {}

---------------------------------------------------------------------------
(* The io threads: post_message_to_logic_system. *)

(* The first get_instance() constructs the singleton and starts the worker. *)
Construct ==
  /\ life = "unborn"
  /\ life' = "live"
  /\ worker' = "lock"
  /\ UNCHANGED <<m_logic_que, m_mutex, poster, processed, answered>>

PostLock(p) ==
  /\ life \in {"live", "stop", "join"}
  /\ poster[p] = "idle" /\ m_mutex = "free"
  /\ Len(processed) + Len(m_logic_que) < MaxPosts
  /\ m_mutex' = p
  /\ poster' = [poster EXCEPT ![p] = "push"]
  /\ UNCHANGED <<m_logic_que, life, worker, processed, answered>>

(* was_empty is read, the node is pushed; without a notification to send   *)
(* the scope ends here and the mutex is released.                          *)
WasEmptyAfterPush == m_logic_que' = <<>>   \* a slip: read after the push
WasEmpty == m_logic_que = <<>>

NodeNumber == Len(processed) + Len(m_logic_que) + 1

PostPush(p) ==
  /\ life # "gone" /\ poster[p] = "push"
  /\ \E id \in ReqIds :
       m_logic_que' = Append(m_logic_que, [no |-> NodeNumber, id |-> id])
  /\ IF WasEmpty
     THEN /\ poster' = [poster EXCEPT ![p] = "notify"]
          /\ UNCHANGED m_mutex
     ELSE /\ poster' = [poster EXCEPT ![p] = "idle"]
          /\ m_mutex' = "free"
  /\ UNCHANGED <<life, worker, processed, answered>>

(* notify_one and notify_all reach the one thread that waits, if it waits. *)
NotifyNobody == UNCHANGED worker           \* a slip: no notification
NotifyWorker == worker' = IF worker = "blocked" THEN "woken" ELSE worker

PostNotify(p) ==
  /\ life # "gone" /\ poster[p] = "notify"
  /\ NotifyWorker
  /\ poster' = [poster EXCEPT ![p] = "idle"]
  /\ m_mutex' = "free"
  /\ UNCHANGED <<m_logic_que, life, processed, answered>>

(* The io threads are joined only after this destructor has run (the pool  *)
(* is the older static), so one of them may be in a post or begin one: it  *)
(* then uses a dead object, and nothing is known of that thread any more.  *)
DanglingPost(p) ==
  /\ life = "gone" /\ poster[p] # "dangling"
  /\ poster' = [poster EXCEPT ![p] = "dangling"]
  /\ UNCHANGED <<m_logic_que, m_mutex, life, worker, processed, answered>>

---------------------------------------------------------------------------
(* The worker thread: deal_message. *)

(* Taking the mutex: at the head of the loop, or when cond.wait returns.   *)
(* The slip is the wait without a predicate that logicsystem.cpp:132 had.  *)
WorkerLockUnchecked ==
  /\ worker \in {"lock", "woken"} /\ m_mutex = "free"
  /\ m_mutex' = "worker"
  /\ worker' = IF worker = "woken" THEN "front" ELSE "pred"
  /\ UNCHANGED <<m_logic_que, life, poster, processed, answered>>

WorkerLock ==
  /\ worker \in {"lock", "woken"} /\ m_mutex = "free"
  /\ m_mutex' = "worker"
  /\ worker' = "pred"
  /\ UNCHANGED <<m_logic_que, life, poster, processed, answered>>

WorkerPredicate ==
  /\ worker = "pred"
  /\ worker' = IF m_logic_que # <<>> \/ m_is_stop THEN "front" ELSE "sleep"
  /\ UNCHANGED <<m_logic_que, m_mutex, life, poster, processed, answered>>

(* cond.wait releases the mutex and blocks in one step, but the predicate  *)
(* was evaluated in an earlier one.                                        *)
WorkerBlock ==
  /\ worker = "sleep"
  /\ worker' = "blocked"
  /\ m_mutex' = "free"
  /\ UNCHANGED <<m_logic_que, life, poster, processed, answered>>

SpuriousWakeup ==
  /\ worker = "blocked"
  /\ worker' = "woken"
  /\ UNCHANGED <<m_logic_que, m_mutex, life, poster, processed, answered>>

PopNothing ==                              \* a slip: the front stays
  /\ processed' = Append(processed, Head(m_logic_que))
  /\ UNCHANGED m_logic_que
PopFront ==
  /\ processed' = Append(processed, Head(m_logic_que))
  /\ m_logic_que' = Tail(m_logic_que)

(* The unlock at the end of each turn of the loop, and its break. *)
EndOfTurnAtStop(que) ==                    \* a slip: the queue is not drained
  /\ worker' = IF m_is_stop THEN "exited" ELSE "lock"
  /\ m_mutex' = "free"
EndOfTurn(que) ==
  /\ worker' = IF que = <<>> /\ m_is_stop THEN "exited" ELSE "lock"
  /\ m_mutex' = "free"

(* An id without a callback: popped, and the loop continues without        *)
(* looking at m_is_stop.                                                   *)
WorkerDrop ==
  /\ worker = "front" /\ m_logic_que # <<>>
  /\ Head(m_logic_que).id \notin Registered
  /\ PopFront
  /\ worker' = "lock" /\ m_mutex' = "free"
  /\ UNCHANGED <<life, poster, answered>>

WorkerCallUnlocked ==                      \* a slip: unlocked for the callback
  /\ worker = "front" /\ m_logic_que # <<>>
  /\ Head(m_logic_que).id \in Registered
  /\ worker' = "handler" /\ m_mutex' = "free"
  /\ UNCHANGED <<m_logic_que, life, poster, processed, answered>>
WorkerCall ==
  /\ worker = "front" /\ m_logic_que # <<>>
  /\ Head(m_logic_que).id \in Registered
  /\ worker' = "handler"
  /\ UNCHANGED <<m_logic_que, m_mutex, life, poster, processed, answered>>

(* test_send always calls send; do_upload_file_req does not when the body  *)
(* is not JSON.                                                            *)
Callback(node) ==
  \/ answered' = answered \cup {node.no}
  \/ node.id = "E_ID_UPLOAD_FILE_REQ" /\ UNCHANGED answered

(* The handler returns and the node is popped.                             *)
WorkerReturn ==
  /\ worker = "handler"
  /\ Callback(Head(m_logic_que))
  /\ PopFront
  /\ EndOfTurn(Tail(m_logic_que))
  /\ UNCHANGED <<life, poster>>

WorkerNoWork ==
  /\ worker = "front" /\ m_logic_que = <<>>
  /\ EndOfTurn(m_logic_que)
  /\ UNCHANGED <<m_logic_que, life, poster, processed, answered>>

---------------------------------------------------------------------------
(* The main thread after main() has returned: ~LogicSystem. *)

DtorStop ==
  /\ life = "live"
  /\ life' = "stop"
  /\ UNCHANGED <<m_logic_que, m_mutex, worker, poster, processed, answered>>

DtorNotify ==
  /\ life = "stop"
  /\ life' = "join"
  /\ NotifyWorker
  /\ UNCHANGED <<m_logic_que, m_mutex, poster, processed, answered>>

(* The members, the mutex among them, die after the join. *)
DtorJoin ==
  /\ life = "join" /\ worker = "exited"
  /\ life' = "gone"
  /\ UNCHANGED <<m_logic_que, m_mutex, worker, poster, processed, answered>>

WorkerNext == \/ WorkerLock \/ WorkerPredicate \/ WorkerBlock
              \/ WorkerDrop \/ WorkerCall \/ WorkerReturn \/ WorkerNoWork

Next ==
  \/ Construct
  \/ \E p \in Posters : PostLock(p) \/ PostPush(p) \/ PostNotify(p) \/ DanglingPost(p)
  \/ WorkerNext \/ SpuriousWakeup
  \/ DtorStop \/ DtorNotify \/ DtorJoin

Spec == Init /\ [][Next]_vars

(* The threads run; whether a message arrives, the process exits or a wait *)
(* ends spuriously is up to the environment.                               *)
FairSpec ==
  /\ Spec
  /\ WF_vars(WorkerNext)
  /\ \A p \in Posters : WF_vars(PostPush(p) \/ PostNotify(p))
  /\ WF_vars(DtorNotify \/ DtorJoin)

---------------------------------------------------------------------------
(* Safety. *)

(* m_logic_que is touched under m_mutex only: no two threads are inside a  *)
(* critical section at once, and the handler, which holds a reference to   *)
(* the front of the queue, runs with the mutex held.                       *)
QueueExclusive ==
  /\ worker \in {"pred", "sleep", "front", "handler"} =>
       m_mutex = "worker" /\ \A p \in Posters : poster[p] \notin {"push", "notify"}
  /\ \A p, q \in Posters :
       poster[p] \in {"push", "notify"} /\ poster[q] \in {"push", "notify"} => p = q

(* notify_one only when the queue was empty is enough: a worker that waits *)
(* while there is work is about to be notified.                            *)
NoLostWakeup ==
  worker \in {"sleep", "blocked"} /\ m_logic_que # <<>> =>
    \E p \in Posters : poster[p] = "notify"

(* Messages are taken off in the order of posting, each once, unregistered *)
(* ids included: the queue implements the FIFO channel.                    *)
Channel == INSTANCE FifoChannel
             WITH put <- processed \o m_logic_que, got <- processed, Item <- LogicNode
HandledInPostOrder == Channel!Spec

---------------------------------------------------------------------------
(* Liveness, of FairSpec. *)

(* Every message in the queue before the worker leaves deal_message is     *)
(* handled, shutdown or not.                                               *)
EveryPostHandled ==
  \A n \in 1..MaxPosts :
    (worker # "exited" /\ n \in {m_logic_que[i].no : i \in DOMAIN m_logic_que})
      ~> Len(processed) >= n

(* The destructor ends, unless its notify_all fell between the worker's    *)
(* evaluation of the predicate and its wait.                               *)
StopExitsUnlessMissed ==
  [](~(life = "join" /\ worker = "sleep")) => (m_is_stop ~> worker = "exited")

---------------------------------------------------------------------------
(* What the comments claim and the code does not do. *)

(* "if stopped, exit after handling what is left" (logicsystem.cpp:152):   *)
(* the worker exits after a stop.                                          *)
StopExits == m_is_stop ~> worker = "exited"

(* E_INVALID_ID "request failed, invalid message id" (global.hpp:56): a    *)
(* request with an unregistered id is answered.                            *)
InvalidIdAnswered ==
  \A i \in DOMAIN processed :
    processed[i].id \notin Registered => processed[i].no \in answered
=============================================================================
