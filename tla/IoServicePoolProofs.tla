------------------------ MODULE IoServicePoolProofs ------------------------
(***************************************************************************)
(* Proofs about AsioIoServicePool, for any number of services: the even    *)
(* distribution of sessions, and the life of the threads inside run().     *)
(***************************************************************************)
EXTENDS IoServicePool, TLAPS

(* The services before m_next_service have been given out once more than   *)
(* the last one, the others as often.                                      *)
RoundRobin ==
  \A i \in m_services :
    given[i] = given[size_ - 1] + (IF i < m_next_service THEN 1 ELSE 0)

Running(t) == thread[t] \in {"run", "handler"}

(* Where the threads are, by the progress of the main thread.              *)
ThreadInv ==
  /\ main.pc \in {"ctor", "up"} => m_service_works = m_services /\ stopped = {}
  /\ main.pc \in {"ctor", "join"} => main.k \in m_work_ths
  /\ main.pc \in {"reset", "stop"} => main.k \in m_services
  /\ main.pc = "ctor" => \A t \in m_work_ths : IF t < main.k THEN Running(t) ELSE thread[t] = "none"
  /\ main.pc = "up" => \A t \in m_work_ths : Running(t)
  /\ main.pc = "join" => \A t \in m_work_ths : t < main.k => thread[t] = "joined"
  /\ main.pc = "done" => \A t \in m_work_ths : thread[t] = "joined"

(* The inductive invariant: Spec => []IInv. *)
IInv == TypeOK /\ RoundRobin /\ ThreadInv

---------------------------------------------------------------------------

(* Every thread runs one of the services.                                  *)
LEMMA ServiceOfType == \A t \in m_work_ths : ServiceOf(t) \in m_services
  BY SizeAssumption DEF m_work_ths, m_services, ServiceOf

(* The initial state satisfies the inductive invariant. *)
LEMMA InitIInv == Init => IInv
  BY SizeAssumption DEF Init, At, Guards, IInv, TypeOK, RoundRobin, ThreadInv, Running,
     m_services, m_work_ths

(* Handing out a service keeps the round robin.                            *)
LEMMA GetRoundRobin == TypeOK /\ RoundRobin /\ get_service => RoundRobin' /\ m_next_service' \in m_services
<1> SUFFICES ASSUME TypeOK, RoundRobin, get_service
             PROVE  RoundRobin' /\ m_next_service' \in m_services
  OBVIOUS
<1> USE SizeAssumption DEF m_services
<1>1. /\ m_next_service \in 0..(size_ - 1) /\ given \in [0..(size_ - 1) -> Nat]
      /\ given' = [given EXCEPT ![m_next_service] = @ + 1]
      /\ m_next_service' = IF m_next_service + 1 = size_ THEN 0 ELSE m_next_service + 1
  BY DEF TypeOK, get_service, Following
<1>2. CASE m_next_service + 1 = size_
  BY <1>1, <1>2 DEF RoundRobin
<1>3. CASE m_next_service + 1 # size_
  BY <1>1, <1>3 DEF RoundRobin
<1> QED
  BY <1>2, <1>3

(* Every step preserves the inductive invariant.                           *)
LEMMA StepIInv == IInv /\ [Next]_vars => IInv'
<1> SUFFICES ASSUME IInv, [Next]_vars PROVE IInv'
  OBVIOUS
<1> USE SizeAssumption DEF IInv, users, queues
<1>1. CASE StartThread
  <2>1. TypeOK'
    BY <1>1 DEF StartThread, Turn, TypeOK, ThreadInv
  <2>2. ThreadInv'
    BY <1>1 DEF StartThread, Turn, TypeOK, ThreadInv, Running, m_work_ths
  <2> QED
    BY <1>1, <2>1, <2>2 DEF StartThread, RoundRobin
<1>2. CASE get_service
  <2>1. TypeOK'
    BY <1>2, GetRoundRobin DEF get_service, TypeOK
  <2>2. ThreadInv'
    BY <1>2 DEF get_service, ThreadInv, Running
  <2> QED
    BY <1>2, <2>1, <2>2, GetRoundRobin
<1>3. CASE StopBegin
  BY <1>3 DEF StopBegin, TypeOK, ThreadInv, RoundRobin, m_services
<1>4. CASE ResetWork
  <2>0. main' \in [pc : {"reset", "stop"}, k : Nat]
    BY <1>4 DEF ResetWork, Turn, TypeOK
  <2>1. TypeOK'
    BY <1>4, <2>0 DEF ResetWork, TypeOK
  <2>2. ThreadInv'
    BY <1>4 DEF ResetWork, Turn, TypeOK, ThreadInv, m_services
  <2> QED
    BY <1>4, <2>1, <2>2 DEF ResetWork, RoundRobin
<1>5. CASE StopService
  <2>1. main.k \in m_services
    BY <1>5 DEF StopService, ThreadInv
  <2>2. main' \in [pc : {"stop", "join"}, k : Nat]
    BY <1>5, <2>1 DEF StopService, Turn, TypeOK, m_services
  <2>3. TypeOK'
    BY <1>5, <2>1, <2>2 DEF StopService, TypeOK
  <2>4. main'.pc = "stop" => main'.k \in m_services
    BY <1>5, <2>1 DEF StopService, Turn, TypeOK, m_services
  <2>5. main'.pc = "join" => main'.k = 0
    BY <1>5 DEF StopService, Turn, TypeOK
  <2>6. ThreadInv'
    BY <1>5, <2>2, <2>4, <2>5 DEF StopService, ThreadInv, m_work_ths
  <2> QED
    BY <1>5, <2>3, <2>6 DEF StopService, RoundRobin
<1>6. CASE JoinThread
  <2>1. TypeOK'
    BY <1>6 DEF JoinThread, Turn, TypeOK, ThreadInv
  <2>2. ThreadInv'
    BY <1>6 DEF JoinThread, Turn, TypeOK, ThreadInv, m_work_ths
  <2> QED
    BY <1>6, <2>1, <2>2 DEF JoinThread, RoundRobin
<1>7. ASSUME NEW i \in m_services, BeginOp(i) \/ CompleteOp(i) PROVE IInv'
  BY <1>7 DEF BeginOp, CompleteOp, TypeOK, ThreadInv, Running, RoundRobin
<1>8. ASSUME NEW t \in m_work_ths, ThreadStep(t) PROVE IInv'
  <2>1. ServiceOf(t) \in m_services
    BY ServiceOfType
  <2>2. CASE RunHandler(t)
    BY <2>1, <2>2 DEF RunHandler, TypeOK, ThreadInv, Running, RoundRobin
  <2>3. CASE EndHandler(t)
    BY <2>3 DEF EndHandler, TypeOK, ThreadInv, Running, RoundRobin
  <2>4. CASE ReturnFromRun(t)
    <3>1. main.pc \notin {"ctor", "up"}
      BY <2>1, <2>4 DEF ReturnFromRun, HasWork, ThreadInv
    <3> QED
      BY <2>4, <3>1 DEF ReturnFromRun, TypeOK, ThreadInv, RoundRobin
  <2> QED
    BY <1>8, <2>2, <2>3, <2>4 DEF ThreadStep
<1>9. CASE UNCHANGED vars
  BY <1>9 DEF vars, TypeOK, ThreadInv, Running, RoundRobin
<1> QED
  BY <1>1, <1>2, <1>3, <1>4, <1>5, <1>6, <1>7, <1>8, <1>9 DEF Next, MainLoop

(* The inductive invariant holds in every reachable state.                 *)
THEOREM Invariant == Spec => []IInv
  BY InitIInv, StepIInv, PTL DEF Spec

(* Type correctness; with it, m_next_service is always an index of         *)
(* m_services.                                                             *)
THEOREM TypeCorrect == Spec => []TypeOK
<1>1. IInv => TypeOK
  BY DEF IInv
<1> QED
  BY <1>1, Invariant, PTL

(* get_service spreads the sessions evenly over any number of services.    *)
THEOREM EvenlySpread == Spec => []Balanced
<1>1. IInv => Balanced
  <2> SUFFICES ASSUME IInv, NEW i \in m_services, NEW j \in m_services
               PROVE  given[i] <= given[j] + 1
    BY DEF Balanced
  <2>1. given[size_ - 1] \in Nat
    BY SizeAssumption DEF IInv, TypeOK, m_services
  <2> QED
    BY <2>1 DEF IInv, RoundRobin
<1> QED
  BY <1>1, Invariant, PTL

(* The work guards keep every started thread inside run() until stop().    *)
THEOREM GuardsHold == Spec => []GuardsKeepRunning
<1>1. IInv => GuardsKeepRunning
  BY DEF IInv, ThreadInv, Running, GuardsKeepRunning
<1> QED
  BY <1>1, Invariant, PTL

(* stop() returns only when every thread has left its io_context.          *)
THEOREM AllJoined == Spec => []QuietAfterStop
<1>1. IInv => QuietAfterStop
  BY DEF IInv, ThreadInv, QuietAfterStop
<1> QED
  BY <1>1, Invariant, PTL
====
