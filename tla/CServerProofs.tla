--------------------------- MODULE CServerProofs ---------------------------
(***************************************************************************)
(* Proofs about CServer, for any number of sessions and io threads: what   *)
(* m_sessions holds while sessions come, fail and are cleared.             *)
(***************************************************************************)
EXTENDS CServer, TLAPS

Clearing(s) == \E t \in IoThreads : io[t].pc # "idle" /\ io[t].s = s

(* clear_session runs for sessions only on which close() has run.          *)
ClearsClosed == \A t \in IoThreads : io[t].pc # "idle" => io[t].s \in closed

(* A session in the map, or on its way into it, has an operation whose     *)
(* failure will clear it, or is being cleared, unless it was erased early. *)
WillBeCleared ==
  \A s \in Sessions :
    s \in m_sessions \/ Inserting(s) => "read" \in holds[s] \/ Clearing(s) \/ s \in early

(* The inductive invariant: Spec => []IInv. *)
IInv == TypeOK /\ ConnectedIsKept /\ ClearsClosed /\ WillBeCleared

LEMMA InitIInv == Init => IInv
<1> SUFFICES ASSUME Init PROVE IInv
  OBVIOUS
<1>1. 1 \in Sessions
  BY SessionsAssumption DEF Sessions
<1>2. TypeOK
  BY <1>1 DEF Init, TypeOK, Idle
<1>3. ConnectedIsKept /\ WillBeCleared
  BY DEF Init, ConnectedIsKept, WillBeCleared, Inserting
<1>4. ClearsClosed
  BY DEF Init, ClearsClosed, Idle
<1> QED
  BY <1>2, <1>3, <1>4 DEF IInv

(* The steps of the main thread. *)
LEMMA MainKeeps == IInv /\ (MainStep \/ AcceptStep \/ Signal) => IInv'
<1> SUFFICES ASSUME IInv, MainStep \/ AcceptStep \/ Signal PROVE IInv'
  OBVIOUS
<1> USE DEF IInv
<1>1. UNCHANGED <<closed, io, early>>
  BY DEF MainStep, AcceptStep, InsertBegin, InsertEnd, Restart, NewAccept, DestroyBegin,
         DestroyEnd, Accepted, AcceptFails, Signal
<1>2. ClearsClosed' /\ \A s : Clearing(s)' = Clearing(s)
  BY <1>1 DEF ClearsClosed, Clearing
<1>3. ub' \in BOOLEAN
  BY DEF TypeOK, MainStep, AcceptStep, InsertBegin, InsertEnd, Restart, DestroyBegin,
         DestroyEnd, Accepted, AcceptFails, Signal, Erasing
<1>4. CASE InsertBegin \/ Signal \/ DestroyBegin
  <2>1. UNCHANGED <<current, holds, m_sessions>> /\ main' \in {"inserting", "exit", "destroying"}
        /\ \A s : Inserting(s)' = Inserting(s)
    BY <1>4 DEF InsertBegin, Signal, DestroyBegin, Inserting
  <2>2. main # "gone"
    BY <1>4 DEF InsertBegin, Signal, DestroyBegin
  <2> QED
    BY <1>1, <1>2, <1>3, <2>1, <2>2 DEF TypeOK, ConnectedIsKept, WillBeCleared
<1>5. CASE InsertEnd
  <2>1. UNCHANGED <<current, holds>> /\ main = "inserting" /\ main' = "restart"
        /\ m_sessions' = m_sessions \cup {current}
        /\ \A s : ~Inserting(s)' /\ (Inserting(s) <=> s = current)
    BY <1>5 DEF InsertEnd, Inserted, Inserting
  <2> QED
    BY <1>1, <1>2, <1>3, <2>1 DEF TypeOK, ConnectedIsKept, WillBeCleared
<1>6. CASE Restart \/ AcceptFails
  <2>1. UNCHANGED <<holds, m_sessions>> /\ main \in {"restart", "accept"} /\ main' = "accept"
        /\ \A s : ~Inserting(s)' /\ ~Inserting(s)
    BY <1>6 DEF Restart, AcceptFails, NewAccept, Inserting
  <2>2. current' \in Sessions
    BY <1>6, SessionsAssumption DEF Restart, AcceptFails, NewAccept, Sessions, TypeOK
  <2> QED
    BY <1>1, <1>2, <1>3, <2>1, <2>2 DEF TypeOK, ConnectedIsKept, WillBeCleared
<1>7. CASE DestroyEnd
  <2>1. UNCHANGED <<current, holds>> /\ main' = "gone" /\ m_sessions' = {}
        /\ \A s : ~Inserting(s)'
    BY <1>7 DEF DestroyEnd, Inserting
  <2> QED
    BY <1>1, <1>2, <1>3, <2>1 DEF TypeOK, ConnectedIsKept, WillBeCleared
<1>8. CASE Accepted
  <2>1. /\ UNCHANGED <<current, m_sessions>> /\ main = "accept" /\ main' = "insert"
        /\ \A s : ~Inserting(s) /\ (Inserting(s)' <=> s = current)
    BY <1>8 DEF Accepted, Inserting
  <2>2. /\ holds' \in [Sessions -> SUBSET {"read", "write", "node"}]
        /\ holds'[current] = {"read"}
        /\ \A s \in Sessions : s # current => holds'[s] = holds[s]
    BY <1>8 DEF Accepted, TypeOK
  <2> QED
    BY <1>1, <1>2, <1>3, <2>1, <2>2 DEF TypeOK, ConnectedIsKept, WillBeCleared
<1> QED
  BY <1>4, <1>5, <1>6, <1>7, <1>8 DEF MainStep, AcceptStep

(* The sessions' operations that succeed.                                  *)
LEMMA OperationKeeps ==
  ASSUME NEW s \in Sessions, IInv, PostNode(s) \/ Handled(s) \/ WriteDone(s)
  PROVE  IInv'
<1> USE DEF IInv
<1>1. UNCHANGED <<main, current, closed, m_sessions, io, early, ub>>
  BY DEF PostNode, Handled, WriteDone
<1>2. PICK h \in SUBSET {"read", "write", "node"} :
        /\ holds' = [holds EXCEPT ![s] = h]
        /\ "read" \in h <=> "read" \in holds[s]
  BY DEF PostNode, Handled, WriteDone, Hold, Drop, TypeOK
<1>3. /\ holds' \in [Sessions -> SUBSET {"read", "write", "node"}]
      /\ \A r \in Sessions : "read" \in holds'[r] <=> "read" \in holds[r]
  BY <1>2 DEF TypeOK
<1> QED
  BY <1>1, <1>3 DEF TypeOK, ConnectedIsKept, ClearsClosed, WillBeCleared, Inserting, Clearing

(* An operation fails. *)
LEMMA FailKeeps ==
  ASSUME NEW s \in Sessions, NEW t \in IoThreads, NEW op \in {"read", "write"},
         IInv, OpFails(t, s, op)
  PROVE  IInv'
<1> USE DEF IInv
<1>1. /\ UNCHANGED <<main, current, m_sessions, early, ub>> /\ closed' = closed \cup {s}
      /\ io[t].pc = "idle"
  BY DEF OpFails
<1>2. /\ holds' \in [Sessions -> SUBSET {"read", "write", "node"}]
      /\ \A r \in Sessions : r # s => holds'[r] = holds[r]
  BY DEF OpFails, Drop, TypeOK
<1>3. PICK to \in [pc : {"idle", "clear", "erasing"}, s : Sessions] :
        to = [pc |-> "clear", s |-> s] /\ to.pc = "clear" /\ to.s = s
  <2>1. /\ [pc |-> "clear", s |-> s] \in [pc : {"idle", "clear", "erasing"}, s : Sessions]
        /\ [pc |-> "clear", s |-> s].pc = "clear" /\ [pc |-> "clear", s |-> s].s = s
    OBVIOUS
  <2> QED
    BY <2>1
<1>4. /\ io' \in [IoThreads -> [pc : {"idle", "clear", "erasing"}, s : Sessions]]
      /\ io'[t] = to /\ \A u \in IoThreads : u # t => io'[u] = io[u]
  BY <1>3 DEF OpFails, TypeOK
<1>5. Clearing(s)' /\ \A r : Clearing(r) => Clearing(r)'
  BY <1>1, <1>3, <1>4 DEF Clearing
<1>6. ClearsClosed'
  BY <1>1, <1>3, <1>4 DEF ClearsClosed
<1>7. TypeOK'
  BY <1>1, <1>2, <1>4 DEF TypeOK
<1>8. ConnectedIsKept' /\ WillBeCleared'
  BY <1>1, <1>2, <1>5 DEF ConnectedIsKept, WillBeCleared, Inserting
<1> QED
  BY <1>6, <1>7, <1>8

(* clear_session. *)
LEMMA ClearKeeps ==
  ASSUME NEW t \in IoThreads, IInv, ClearStep(t)
  PROVE  IInv'
<1> USE DEF IInv
<1>1. PICK s \in Sessions : s = io[t].s
  BY DEF TypeOK
<1>2. UNCHANGED <<main, current, holds, closed>> /\ s \in closed
  BY <1>1 DEF ClearStep, ClearBegin, ClearEnd, ClearsClosed
<1>3. CASE ClearBegin(t)
  <2>1. UNCHANGED <<m_sessions, early>> /\ ub' \in BOOLEAN /\ io[t].pc = "clear"
    BY <1>3 DEF ClearBegin, Erasing
  <2>2. PICK to \in [pc : {"idle", "clear", "erasing"}, s : Sessions] :
          to = [io[t] EXCEPT !.pc = "erasing"] /\ to.pc = "erasing" /\ to.s = s
    <3>1. PICK from \in [pc : {"idle", "clear", "erasing"}, s : Sessions] : from = io[t]
      BY DEF TypeOK
    <3>2. /\ [from EXCEPT !.pc = "erasing"] \in [pc : {"idle", "clear", "erasing"}, s : Sessions]
          /\ [from EXCEPT !.pc = "erasing"].pc = "erasing"
          /\ [from EXCEPT !.pc = "erasing"].s = from.s
      OBVIOUS
    <3> QED
      BY <1>1, <3>1, <3>2
  <2>3. /\ io' \in [IoThreads -> [pc : {"idle", "clear", "erasing"}, s : Sessions]]
        /\ io'[t] = to /\ \A u \in IoThreads : u # t => io'[u] = io[u]
    BY <1>3, <2>2 DEF ClearBegin, TypeOK
  <2>4. ClearsClosed' /\ \A r : Clearing(r) => Clearing(r)'
    BY <1>1, <1>2, <2>1, <2>2, <2>3 DEF ClearsClosed, Clearing
  <2> QED
    BY <1>2, <2>1, <2>3, <2>4 DEF TypeOK, ConnectedIsKept, WillBeCleared, Inserting
<1>4. CASE ClearEnd(t)
  <2>1. /\ m_sessions' = m_sessions \ {s} /\ UNCHANGED ub
        /\ early' = IF Inserting(s) THEN early \cup {s} ELSE early
    BY <1>1, <1>4 DEF ClearEnd, Erased
  <2>2. /\ io' \in [IoThreads -> [pc : {"idle", "clear", "erasing"}, s : Sessions]]
        /\ io'[t].pc = "idle" /\ \A u \in IoThreads : u # t => io'[u] = io[u]
    <3>1. Idle \in [pc : {"idle", "clear", "erasing"}, s : Sessions] /\ Idle.pc = "idle"
      BY SessionsAssumption DEF Idle, Sessions
    <3> QED
      BY <1>4, <3>1 DEF ClearEnd, TypeOK
  <2>3. ClearsClosed' /\ \A r : r # s => (Clearing(r) => Clearing(r)')
    BY <1>1, <1>2, <2>2 DEF ClearsClosed, Clearing
  <2>4. ConnectedIsKept' /\ TypeOK'
    BY <1>2, <2>1, <2>2 DEF TypeOK, ConnectedIsKept, Inserting
  <2>5. WillBeCleared'
    BY <1>2, <2>1, <2>3 DEF WillBeCleared, Inserting
  <2> QED
    BY <2>3, <2>4, <2>5
<1> QED
  BY <1>3, <1>4 DEF ClearStep

(* Every step keeps the inductive invariant. *)
LEMMA StepIInv == IInv /\ [Next]_vars => IInv'
<1> SUFFICES ASSUME IInv, [Next]_vars PROVE IInv'
  OBVIOUS
<1>1. CASE MainStep \/ AcceptStep \/ Signal
  BY <1>1, MainKeeps
<1>2. CASE \E s \in Sessions : PostNode(s) \/ Handled(s) \/ WriteDone(s)
  BY <1>2, OperationKeeps
<1>3. CASE \E s \in Sessions, t \in IoThreads, op \in {"read", "write"} : OpFails(t, s, op)
  BY <1>3, FailKeeps
<1>4. CASE \E t \in IoThreads : ClearStep(t)
  BY <1>4, ClearKeeps
<1>5. CASE UNCHANGED vars
  BY <1>5 DEF vars, IInv, TypeOK, ConnectedIsKept, ClearsClosed, WillBeCleared, Inserting,
              Clearing
<1> QED
  BY <1>1, <1>2, <1>3, <1>4, <1>5 DEF Next

(* The inductive invariant holds in every state of the server. *)
THEOREM Invariant == Spec => []IInv
  BY InitIInv, StepIInv, PTL DEF Spec

(* Type correctness of CServer. *)
THEOREM TypeCorrect == Spec => []TypeOK
<1>1. IInv => TypeOK
  BY DEF IInv
<1> QED
  BY <1>1, Invariant, PTL

(* Until the process exits, a connected session is in m_sessions.          *)
THEOREM Kept == Spec => []ConnectedIsKept
<1>1. IInv => ConnectedIsKept
  BY DEF IInv
<1> QED
  BY <1>1, Invariant, PTL

(* The map is the last holder of a session only when the session failed    *)
(* before it was inserted.                                                 *)
THEOREM LeaksOnlyEarly == Spec => []OnlyEarlyLeaks
<1>1. IInv => OnlyEarlyLeaks
  BY DEF IInv, TypeOK, WillBeCleared, OnlyEarlyLeaks, Clearing
<1> QED
  BY <1>1, Invariant, PTL

---------------------------------------------------------------------------
(* m_sessions without a lock. *)

(* An io thread is in m_sessions, through mp_server, together with the     *)
(* main thread or another io thread, or after the CServer is gone.         *)
Overlap ==
  \E t \in IoThreads :
    /\ io[t].pc = "erasing"
    /\ \/ main \in {"inserting", "destroying", "gone"}
       \/ \E u \in IoThreads \ {t} : io[u].pc = "erasing"

(* ub notes the overlap when it begins. *)
LEMMA StepOverlap ==
  ASSUME TypeOK, ub <=> Overlap, [Next]_vars
  PROVE  ub' <=> Overlap'
<1> USE DEF Overlap
<1>1. CASE UNCHANGED vars
  BY <1>1 DEF vars
<1>2. CASE ~ub /\ (MainStep \/ AcceptStep \/ Signal)
  <2>1. io' = io
    BY <1>2 DEF MainStep, AcceptStep, InsertBegin, InsertEnd, Restart, DestroyBegin,
           DestroyEnd, Accepted, AcceptFails, Signal
  <2>2. CASE InsertBegin \/ DestroyBegin
    BY <1>2, <2>1, <2>2 DEF InsertBegin, DestroyBegin, Erasing
  <2>3. CASE DestroyEnd
    BY <1>2, <2>1, <2>3 DEF DestroyEnd
  <2>4. CASE InsertEnd \/ Restart \/ AcceptStep \/ Signal
    BY <1>2, <2>1, <2>4 DEF InsertEnd, Restart, NewAccept, AcceptStep, Accepted, AcceptFails, Signal
  <2> QED
    BY <1>2, <2>2, <2>3, <2>4 DEF MainStep
<1>3. CASE ~ub /\ \E s \in Sessions : PostNode(s) \/ Handled(s) \/ WriteDone(s)
  BY <1>3 DEF PostNode, Handled, WriteDone
<1>4. ASSUME NEW t \in IoThreads, NEW pc \in {"idle", "clear"}, ~ub,
             UNCHANGED <<main, ub>>, io'[t].pc = pc,
             \A u \in IoThreads : u # t => io'[u] = io[u]
      PROVE  ub' <=> Overlap'
  BY <1>4
<1>5. ASSUME NEW s \in Sessions, NEW t \in IoThreads, NEW op \in {"read", "write"},
             ~ub, OpFails(t, s, op)
      PROVE  ub' <=> Overlap'
  BY <1>4, <1>5 DEF OpFails, TypeOK
<1>6. ASSUME NEW t \in IoThreads, ~ub, ClearEnd(t) PROVE ub' <=> Overlap'
  BY <1>4, <1>6 DEF ClearEnd, Idle, TypeOK
<1>7. ASSUME NEW t \in IoThreads, ~ub, ClearBegin(t) PROVE ub' <=> Overlap'
  <2>1. /\ io'[t].pc = "erasing" /\ io[t].pc = "clear" /\ main' = main
        /\ \A u \in IoThreads : u # t => io'[u] = io[u]
    BY <1>7 DEF ClearBegin, TypeOK
  <2>2. ub' <=> Erasing \/ main \in {"inserting", "destroying", "gone"}
    BY <1>7 DEF ClearBegin
  <2>3. Erasing <=> \E u \in IoThreads \ {t} : io'[u].pc = "erasing"
    BY <2>1 DEF Erasing
  <2> QED
    BY <1>7, <2>1, <2>2, <2>3
<1> QED
  BY <1>1, <1>2, <1>3, <1>5, <1>6, <1>7 DEF Next, ClearStep

(* clear_session's use of m_sessions is undefined exactly when it overlaps *)
(* another one, an insertion, or the end of the CServer; and then it is    *)
(* because a session has failed.                                           *)
THEOREM UndefinedByOverlap == Spec => []((ub <=> Overlap) /\ (ub => closed # {}))
<1>1. Init => (ub <=> Overlap)
  BY DEF Init, Overlap, Idle
<1>2. TypeOK /\ (ub <=> Overlap) /\ [Next]_vars => (ub' <=> Overlap')
  BY StepOverlap
<1>3. Spec => [](ub <=> Overlap)
  BY <1>1, <1>2, TypeCorrect, PTL DEF Spec
<1>4. IInv /\ (ub <=> Overlap) => (ub => closed # {})
  BY DEF IInv, ClearsClosed, Overlap
<1> QED
  BY <1>3, <1>4, Invariant, PTL
=============================================================================
