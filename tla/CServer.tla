------------------------------ MODULE CServer ------------------------------
(***************************************************************************)
(* CServer (cserver.cpp) and the life of its sessions: the accept loop on  *)
(* the main thread, the map m_sessions, which the pool's threads use too   *)
(* and nothing guards, close() and clear_session from a failed operation,  *)
(* and the end of run() (ResourceServer.cpp), which destroys the CServer   *)
(* while the pool's threads go on.  A session lives as long as the map, an *)
(* operation or a LogicNode holds a shared_ptr to it.                      *)
(***************************************************************************)
EXTENDS Naturals

CONSTANTS MaxSessions,  \* bound on the sessions created in a behaviour
          IoThreads     \* the threads of AsioIoServicePool

ASSUME SessionsAssumption == MaxSessions \in Nat \ {0}

Sessions == 1..MaxSessions   \* in the order of their creation

VARIABLES
  main,        \* the main thread: waiting to "accept", about to "insert",
               \* "inserting", about to "restart", leaving ("exit"),
               \* "destroying" the CServer, and "gone"
  current,     \* the session of the latest async_accept
  holds,       \* what holds each session, apart from the map: its "read",
               \* its "write", a "node" of LogicSystem
  closed,      \* the sessions on which close() has run
  m_sessions,
  io,          \* each io thread: [pc, s], s the session that has failed
  early,       \* history: the sessions erased before they were inserted
  ub           \* two threads were in m_sessions at once, or mp_server
               \* dangled: nothing is known any more

vars == <<main, current, holds, closed, m_sessions, io, early, ub>>

Idle == [pc |-> "idle", s |-> 1]

TypeOK ==
  /\ main \in {"accept", "insert", "inserting", "restart", "exit", "destroying", "gone"}
  /\ current \in Sessions
  /\ holds \in [Sessions -> SUBSET {"read", "write", "node"}]
  /\ closed \subseteq Sessions /\ m_sessions \subseteq Sessions /\ early \subseteq Sessions
  /\ io \in [IoThreads -> [pc : {"idle", "clear", "erasing"}, s : Sessions]]
  /\ ub \in BOOLEAN

(* run() has called start(), which accepts into the first session. *)
Init ==
  /\ main = "accept" /\ current = 1
  /\ holds = [s \in Sessions |-> {}]
  /\ closed = {} /\ m_sessions = {} /\ early = {}
  /\ io = [t \in IoThreads |-> Idle]
  /\ ub = FALSE

Erasing == \E t \in IoThreads : io[t].pc = "erasing"
Inserting(s) == s = current /\ main \in {"insert", "inserting"}

---------------------------------------------------------------------------
(* The main thread. *)

(* start() makes a new session; the one of a failed accept dies with its   *)
(* handler.                                                                *)
NewAccept ==
  /\ current < MaxSessions
  /\ current' = current + 1
  /\ main' = "accept"

AcceptGivesUp ==                           \* a slip: no start() after an error
  /\ main = "accept"
  /\ main' = "failed"
  /\ UNCHANGED <<current, holds, closed, m_sessions, io, early, ub>>
AcceptFails ==
  /\ main = "accept"
  /\ NewAccept
  /\ UNCHANGED <<holds, closed, m_sessions, io, early, ub>>

(* session->start() issues the first read, before the session is inserted. *)
Accepted ==
  /\ main = "accept"
  /\ holds' = [holds EXCEPT ![current] = {"read"}]
  /\ main' = "insert"
  /\ UNCHANGED <<current, closed, m_sessions, io, early, ub>>

InsertBegin ==
  /\ main = "insert"
  /\ main' = "inserting"
  /\ ub' = Erasing
  /\ UNCHANGED <<current, holds, closed, m_sessions, io, early>>

NotInserted(s) == m_sessions               \* a slip: the session is not kept
Inserted(s) == m_sessions \cup {s}

InsertEnd ==
  /\ main = "inserting"
  /\ m_sessions' = Inserted(current)
  /\ main' = "restart"
  /\ UNCHANGED <<current, holds, closed, io, early, ub>>

Restart ==
  /\ main = "restart"
  /\ NewAccept
  /\ UNCHANGED <<holds, closed, m_sessions, io, early, ub>>

(* SIGINT or SIGTERM: the handler stops the io_context and run() returns.  *)
Signal ==
  /\ main = "accept"
  /\ main' = "exit"
  /\ UNCHANGED <<current, holds, closed, m_sessions, io, early, ub>>

(* The io_context dies with its pending accept, whose handler holds the    *)
(* only shared_ptr to the CServer.                                         *)
DestroyBegin ==
  /\ main = "exit"
  /\ main' = "destroying"
  /\ ub' = Erasing
  /\ UNCHANGED <<current, holds, closed, m_sessions, io, early>>

DestroyEnd ==
  /\ main = "destroying"
  /\ main' = "gone"
  /\ m_sessions' = {}
  /\ UNCHANGED <<current, holds, closed, io, early, ub>>

---------------------------------------------------------------------------
(* The sessions' operations, on the io threads and the logic thread.       *)

Hold(s, what) == holds' = [holds EXCEPT ![s] = @ \cup {what}]
Drop(s, what) == holds' = [holds EXCEPT ![s] = @ \ {what}]

(* A whole message is posted; the next read is issued at once.             *)
PostNode(s) ==
  /\ "read" \in holds[s]
  /\ Hold(s, "node")
  /\ UNCHANGED <<main, current, closed, m_sessions, io, early, ub>>

(* The handler of the message answers, or does not, and the node is gone.  *)
Handled(s) ==
  /\ "node" \in holds[s]
  /\ \E response \in SUBSET {"write"} :
       holds' = [holds EXCEPT ![s] = (@ \ {"node"}) \cup response]
  /\ UNCHANGED <<main, current, closed, m_sessions, io, early, ub>>

WriteDone(s) ==
  /\ "write" \in holds[s]
  /\ Drop(s, "write")
  /\ UNCHANGED <<main, current, closed, m_sessions, io, early, ub>>

(* A read or write fails; close() runs, clear_session is about to.  The    *)
(* io thread holds the session until its handler returns.                  *)
OpFails(t, s, op) ==
  /\ io[t].pc = "idle" /\ op \in holds[s]
  /\ Drop(s, op)
  /\ closed' = closed \cup {s}
  /\ io' = [io EXCEPT ![t] = [pc |-> "clear", s |-> s]]
  /\ UNCHANGED <<main, current, m_sessions, early, ub>>

(* clear_session through mp_server, a plain pointer, without a lock.       *)
ClearBegin(t) ==
  /\ io[t].pc = "clear"
  /\ io' = [io EXCEPT ![t].pc = "erasing"]
  /\ ub' = (Erasing \/ main \in {"inserting", "destroying", "gone"})
  /\ UNCHANGED <<main, current, holds, closed, m_sessions, early>>

ErasedUnlessLive(s) == IF holds[s] # {} THEN m_sessions ELSE m_sessions \ {s}  \* a slip
Erased(s) == m_sessions \ {s}

ClearEnd(t) ==
  /\ io[t].pc = "erasing"
  /\ m_sessions' = Erased(io[t].s)
  /\ early' = IF Inserting(io[t].s) THEN early \cup {io[t].s} ELSE early
  /\ io' = [io EXCEPT ![t] = Idle]
  /\ UNCHANGED <<main, current, holds, closed, ub>>

MainStep == InsertBegin \/ InsertEnd \/ Restart \/ DestroyBegin \/ DestroyEnd
AcceptStep == Accepted \/ AcceptFails
ClearStep(t) == ClearBegin(t) \/ ClearEnd(t)
FailStep(s, op) == s \in closed /\ \E t \in IoThreads : OpFails(t, s, op)

(* Nothing is specified after undefined behaviour. *)
Next ==
  /\ ~ub
  /\ \/ MainStep \/ AcceptStep \/ Signal
     \/ \E s \in Sessions :
          \/ PostNode(s) \/ Handled(s) \/ WriteDone(s)
          \/ \E t \in IoThreads, op \in {"read", "write"} : OpFails(t, s, op)
     \/ \E t \in IoThreads : ClearStep(t)

Spec == Init /\ [][Next]_vars

(* The threads run, and the operations of a closed socket fail: asio runs  *)
(* ready handlers in turn, so no other handler overtakes one for ever.     *)
(* Accepts, and failures of an open socket, come from outside.             *)
FairSpec ==
  /\ Spec
  /\ WF_vars(~ub /\ MainStep)
  /\ \A s \in Sessions, op \in {"read", "write"} : SF_vars(~ub /\ FailStep(s, op))
  /\ \A s \in Sessions : WF_vars(~ub /\ Handled(s))
  /\ \A t \in IoThreads : WF_vars(~ub /\ ClearStep(t))

---------------------------------------------------------------------------
(* Safety. *)

(* Until the process exits, a connected session is in m_sessions.          *)
ConnectedIsKept ==
  \A s \in Sessions :
    "read" \in holds[s] /\ s \notin closed /\ ~Inserting(s) /\ main # "gone"
      => s \in m_sessions

(* A session that nothing else holds is kept by the map, and so leaked, in *)
(* one case only: it failed before it was inserted.                        *)
OnlyEarlyLeaks ==
  \A s \in m_sessions :
    holds[s] = {} /\ (\A t \in IoThreads : io[t].pc = "idle" \/ io[t].s # s) => s \in early

---------------------------------------------------------------------------
(* Liveness, of FairSpec. *)

(* The server goes on accepting, after a failed accept too, until it exits *)
(* or its behaviour is undefined (or the bound on sessions is reached).    *)
KeepsAccepting ==
  []<>(main \in {"accept", "gone"} \/ ub \/ current = MaxSessions)

(* A session that has been closed leaves the map and all that holds it,    *)
(* unless it failed before it was inserted or the behaviour is undefined.  *)
ClosedIsReleased ==
  \A s \in Sessions :
    s \in closed ~> (holds[s] = {} /\ (s \notin m_sessions \/ s \in early)) \/ ub
=============================================================================
