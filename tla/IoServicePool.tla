--------------------------- MODULE IoServicePool ---------------------------
(***************************************************************************)
(* AsioIoServicePool (ioservicepool.cpp): size_ io_contexts, each run by   *)
(* two threads, handed out in turn to the sessions; its constructor, and   *)
(* stop() as its destructor calls it.  An io_context is abstracted to the  *)
(* numbers of its outstanding operations and of its ready handlers.        *)
(***************************************************************************)
EXTENDS Integers

CONSTANTS size_,     \* the number of io_contexts
          MaxGets,   \* bound on the calls of get_service in a behaviour
          MaxOps     \* bound on the asynchronous operations in a behaviour

ASSUME SizeAssumption == size_ \in Nat \ {0}
ASSUME BoundsAssumption == MaxGets \in Nat /\ MaxOps \in Nat

m_services == 0..(size_ - 1)
m_work_ths == 0..(2 * size_ - 1)   \* in the order of their creation

VARIABLES
  main,            \* the main thread: [pc, k], k the index of its loop
  m_next_service,
  given,           \* history: how often each service was handed out
  gets,            \* history: the calls of get_service
  m_service_works, \* the services that hold their work guard
  stopped,         \* the services that were stopped
  thread,          \* where each thread of m_work_ths is
  pending, ready,  \* the operations of each service, and those completed,
                   \* whose handlers wait for a thread
  ops              \* history: the operations begun

vars == <<main, m_next_service, given, gets, m_service_works, stopped, thread,
          pending, ready, ops>>
users == <<m_next_service, given, gets>>
queues == <<pending, ready, ops>>

At(pc, k) == main = [pc |-> pc, k |-> k]

TypeOK ==
  /\ main \in [pc : {"ctor", "up", "reset", "stop", "join", "done"}, k : Nat]
  /\ m_next_service \in m_services
  /\ given \in [m_services -> Nat] /\ gets \in Nat
  /\ m_service_works \subseteq m_services /\ stopped \subseteq m_services
  /\ thread \in [m_work_ths -> {"none", "run", "handler", "returned", "joined"}]
  /\ pending \in [m_services -> Nat] /\ ready \in [m_services -> Nat]
  /\ ops \in Nat

(* The first loop of the constructor gives every service its work guard. *)
NoGuards == {}                             \* a slip: run() without work
Guards == m_services

Init ==
  /\ At("ctor", 0)
  /\ m_next_service = 0
  /\ given = [i \in m_services |-> 0] /\ gets = 0
  /\ m_service_works = Guards /\ stopped = {}
  /\ thread = [t \in m_work_ths |-> "none"]
  /\ pending = [i \in m_services |-> 0] /\ ready = [i \in m_services |-> 0]
  /\ ops = 0

(* The io_context that a thread runs: two loops start one thread each.     *)
LastService(t) == size_ - 1                \* a slip: the index is captured late
ServiceOf(t) == IF t < size_ THEN t ELSE t - size_

(* The main thread goes through a loop of n turns and then to next.        *)
Turn(n, next) ==
  main' = IF main.k + 1 < n THEN [main EXCEPT !.k = @ + 1] ELSE [pc |-> next, k |-> 0]

---------------------------------------------------------------------------
(* The main thread. *)

StartThread ==
  /\ main.pc = "ctor"
  /\ thread' = [thread EXCEPT ![main.k] = "run"]
  /\ Turn(2 * size_, "up")
  /\ UNCHANGED <<users, m_service_works, stopped, queues>>

(* m_next_service is incremented, and reset when it has reached the size.  *)
Unwrapped(next) == next                    \* a slip: never reset
AfterLast(next) == IF next + 1 = size_ THEN 0 ELSE next   \* a slip: too early
Following(next) == IF next = size_ THEN 0 ELSE next

get_service ==
  /\ main.pc = "up" /\ gets < MaxGets
  /\ given' = [given EXCEPT ![m_next_service] = @ + 1]
  /\ m_next_service' = Following(m_next_service + 1)
  /\ gets' = gets + 1
  /\ UNCHANGED <<main, m_service_works, stopped, thread, queues>>

(* The destructor runs once and is the only caller of stop(), so m_stop is *)
(* never found set.                                                        *)
StopBegin ==
  /\ main.pc = "up"
  /\ main' = [pc |-> "reset", k |-> 0]
  /\ UNCHANGED <<users, m_service_works, stopped, thread, queues>>

ResetWork ==
  /\ main.pc = "reset"
  /\ m_service_works' = m_service_works \ {main.k}
  /\ Turn(size_, "stop")
  /\ UNCHANGED <<users, stopped, thread, queues>>

StopOne ==                                 \* a slip: the first service only
  /\ main.pc = "stop"
  /\ stopped' = stopped \cup {main.k}
  /\ main' = [pc |-> "join", k |-> 0]
  /\ UNCHANGED <<users, m_service_works, thread, queues>>
StopService ==
  /\ main.pc = "stop"
  /\ stopped' = stopped \cup {main.k}
  /\ Turn(size_, "join")
  /\ UNCHANGED <<users, m_service_works, thread, queues>>

JoinHalf ==                                \* a slip: one thread per service
  /\ main.pc = "join" /\ thread[main.k] = "returned"
  /\ thread' = [thread EXCEPT ![main.k] = "joined"]
  /\ Turn(size_, "done")
  /\ UNCHANGED <<users, m_service_works, stopped, queues>>
JoinThread ==
  /\ main.pc = "join" /\ thread[main.k] = "returned"
  /\ thread' = [thread EXCEPT ![main.k] = "joined"]
  /\ Turn(2 * size_, "done")
  /\ UNCHANGED <<users, m_service_works, stopped, queues>>

---------------------------------------------------------------------------
(* The sessions' operations, and the threads inside io_context::run.       *)

BeginOp(i) ==
  /\ main.pc # "done" /\ given[i] > 0 /\ ops < MaxOps
  /\ pending' = [pending EXCEPT ![i] = @ + 1]
  /\ ops' = ops + 1
  /\ UNCHANGED <<main, users, m_service_works, stopped, thread, ready>>

CompleteOp(i) ==
  /\ main.pc # "done" /\ pending[i] > 0
  /\ pending' = [pending EXCEPT ![i] = @ - 1]
  /\ ready' = [ready EXCEPT ![i] = @ + 1]
  /\ UNCHANGED <<main, users, m_service_works, stopped, thread, ops>>

RunHandler(t) ==
  /\ thread[t] = "run" /\ ServiceOf(t) \notin stopped /\ ready[ServiceOf(t)] > 0
  /\ thread' = [thread EXCEPT ![t] = "handler"]
  /\ ready' = [ready EXCEPT ![ServiceOf(t)] = @ - 1]
  /\ UNCHANGED <<main, users, m_service_works, stopped, pending, ops>>

EndHandler(t) ==
  /\ thread[t] = "handler"
  /\ thread' = [thread EXCEPT ![t] = "run"]
  /\ UNCHANGED <<main, users, m_service_works, stopped, queues>>

(* A guard, an operation or a running handler is work. *)
HasWork(i) ==
  \/ i \in m_service_works \/ pending[i] + ready[i] > 0
  \/ \E t \in m_work_ths : ServiceOf(t) = i /\ thread[t] = "handler"

ReturnFromRun(t) ==
  /\ thread[t] = "run"
  /\ ServiceOf(t) \in stopped \/ ~HasWork(ServiceOf(t))
  /\ thread' = [thread EXCEPT ![t] = "returned"]
  /\ UNCHANGED <<main, users, m_service_works, stopped, queues>>

ThreadStep(t) == RunHandler(t) \/ EndHandler(t) \/ ReturnFromRun(t)
MainLoop == StartThread \/ ResetWork \/ StopService \/ JoinThread

Next ==
  \/ MainLoop \/ get_service \/ StopBegin
  \/ \E i \in m_services : BeginOp(i) \/ CompleteOp(i)
  \/ \E t \in m_work_ths : ThreadStep(t)

Spec == Init /\ [][Next]_vars

(* The threads run and handlers end; what the sessions do and when the     *)
(* process exits is up to the rest of the program.                         *)
FairSpec ==
  /\ Spec
  /\ WF_vars(MainLoop)
  /\ \A t \in m_work_ths : WF_vars(ThreadStep(t))

---------------------------------------------------------------------------
(* Safety. *)

(* The sessions are spread evenly: get_service never favours a service by  *)
(* more than one session.                                                  *)
Balanced == \A i, j \in m_services : given[i] <= given[j] + 1

(* "bind work to the services so that they do not stop while unused"       *)
(* (ioservicepool.cpp:11): no thread leaves run() before stop() begins.    *)
GuardsKeepRunning ==
  main.pc \in {"ctor", "up"} => \A t \in m_work_ths : thread[t] \in {"none", "run", "handler"}

(* When stop() has returned and the io_contexts are destroyed, no thread   *)
(* is inside one of them.                                                  *)
QuietAfterStop == main.pc = "done" => \A t \in m_work_ths : thread[t] = "joined"

---------------------------------------------------------------------------
(* Liveness, of FairSpec. *)

(* stop() returns, whatever operations and handlers it finds.              *)
StopReturns == main.pc = "reset" ~> main.pc = "done"

(* While the pool is up, handlers that are ready get a thread.             *)
HandlersRun ==
  \A i \in m_services : ready[i] > 0 ~> ready[i] = 0 \/ main.pc \notin {"ctor", "up"}
=============================================================================
