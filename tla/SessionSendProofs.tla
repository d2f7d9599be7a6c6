------------------------- MODULE SessionSendProofs -------------------------
(***************************************************************************)
(* Proofs about the sending half of CSession: the bound of the queue,      *)
(* which holds races or not, and what holds as long as no send has         *)
(* overlapped a write_handler, for any number of io threads and responses. *)
(***************************************************************************)
EXTENDS SessionSend, SequenceTheorems, TLAPS

(* The size that send has read is an upper bound until it pushes.          *)
BoundInv ==
  /\ QueueBounded
  /\ sender.pc = "push" => /\ sender.que_size <= MAX_SENDQUE
                           /\ Len(m_send_queue) <= sender.que_size

(* Send and the handlers take turns, and whoever has the turn knows the    *)
(* queue and that nothing is being written.                                *)
TurnInv ==
  /\ ~ub
  /\ sender.pc # "idle" => \A t \in IoThreads : handler[t] = "idle"
  /\ \A t, u \in IoThreads : handler[t] # "idle" /\ handler[u] # "idle" => t = u
  /\ sender.pc = "push" => sender.que_size = Len(m_send_queue)
  /\ sender.pc = "write" => Len(m_send_queue) = 1 /\ Active = {}
  /\ \A t \in IoThreads : handler[t] # "idle" => Active = {}
  /\ \A t \in IoThreads : handler[t] = "front" => m_send_queue # <<>>

(* The queue and the wire split the responses accepted: what is queued has *)
(* not been sent, but for a front whose completion is still to be handled. *)
SplitInv ==
  /\ Len(m_send_queue) <= accepted
  /\ \A i \in 1..Len(m_send_queue) : m_send_queue[i] = accepted - Len(m_send_queue) + i
  /\ \A i \in 1..Len(wire) : wire[i] = i
  /\ InWrites("sent") = {} => Len(wire) = accepted - Len(m_send_queue)
  /\ InWrites("sent") # {} => Len(wire) = accepted - Len(m_send_queue) + 1

(* What is queued, written or on the wire has been accepted, races or not. *)
AcceptedInv ==
  /\ \A i \in DOMAIN m_send_queue : m_send_queue[i] <= accepted
  /\ \A w \in DOMAIN writes : writes[w].no <= accepted
  /\ \A i \in DOMAIN wire : wire[i] <= accepted

(* AttendedUnlessRaced but for a send that has not pushed yet: it relies   *)
(* on the handler that it has seen at work.                                *)
AttendedInv ==
  m_send_queue # <<>> /\ sender.pc # "write" =>
    (\E t \in IoThreads : handler[t] # "idle") \/ Outstanding # {} \/ m_is_stop

(* The inductive invariant: Spec => []IInv. *)
IInv ==
  /\ TypeOK
  /\ BoundInv
  /\ AcceptedInv
  /\ ~raced => TurnInv /\ OneWriteUnlessRaced /\ SplitInv /\ AttendedInv

---------------------------------------------------------------------------

Write == [no : Response, status : Status]

(* Every async_write is of a response. *)
LEMMA WriteType ==
  ASSUME TypeOK
  PROVE  writes \in Seq(Write) /\ \A w \in DOMAIN writes : writes[w].no \in Response
<1>1. writes \in Seq(Write)
  BY DEF TypeOK, Write
<1>2. \A w \in DOMAIN writes : writes[w] \in Write
  BY <1>1, ElementOfSeq
<1> QED
  BY <1>1, <1>2 DEF Write

(* What a step of one async_write changes of writes.                       *)
LEMMA BecomeProperties ==
  ASSUME writes \in Seq(Write), NEW w \in DOMAIN writes, NEW status \in Status,
         Become(w, status)
  PROVE  /\ writes' \in Seq(Write)
         /\ DOMAIN writes' = DOMAIN writes
         /\ writes'[w].no = writes[w].no /\ writes'[w].status = status
         /\ \A v \in DOMAIN writes : v # w => writes'[v] = writes[v]
<1> DEFINE new == [writes[w] EXCEPT !.status = status]
<1>1. writes[w] \in Write
  BY ElementOfSeq
<1>2. new \in Write /\ new.no = writes[w].no /\ new.status = status
  BY <1>1 DEF Write
<1>3. writes' = [writes EXCEPT ![w] = new]
  BY DEF Become
<1> HIDE DEF new
<1> QED
  BY <1>2, <1>3, ExceptSeq

(* What a new async_write of the front adds to writes.                     *)
LEMMA WriteFrontProperties ==
  ASSUME writes \in Seq(Write), m_send_queue \in Seq(Response), m_send_queue # <<>>,
         WriteFront
  PROVE  /\ writes' \in Seq(Write)
         /\ DOMAIN writes' = DOMAIN writes \cup {Len(writes) + 1}
         /\ Len(writes) + 1 \notin DOMAIN writes
         /\ writes'[Len(writes) + 1].no = Head(m_send_queue)
         /\ writes'[Len(writes) + 1].status = "pending"
         /\ \A v \in DOMAIN writes : writes'[v] = writes[v]
         /\ ub' = ub
<1> DEFINE new == [no |-> Head(m_send_queue), status |-> "pending"]
<1>1. new \in Write
  BY DEF Write, Status
<1>2. writes' = Append(writes, new) /\ ub' = ub
  BY DEF WriteFront
<1>3. new.no = Head(m_send_queue) /\ new.status = "pending"
  OBVIOUS
<1> QED
  BY <1>1, <1>2, <1>3, AppendProperties

(* What write_handler's pop leaves of the queue.                           *)
LEMMA PopProperties ==
  ASSUME m_send_queue \in Seq(Response), m_send_queue # <<>>,
         m_send_queue' = Tail(m_send_queue)
  PROVE  /\ m_send_queue' \in Seq(Response)
         /\ Len(m_send_queue') = Len(m_send_queue) - 1
         /\ \A i \in 1..Len(m_send_queue') : m_send_queue'[i] = m_send_queue[i + 1]
  BY HeadTailProperties

(* The initial state satisfies the inductive invariant.                    *)
LEMMA InitIInv == Init => IInv
<1> SUFFICES ASSUME Init PROVE IInv
  OBVIOUS
<1> USE DEF Init, Idle
<1>1. TypeOK
  <2>1. sender \in [pc : {"idle", "push", "write"}, que_size : Nat]
    OBVIOUS
  <2>2. m_is_stop \in BOOLEAN /\ ub \in BOOLEAN /\ raced \in BOOLEAN
    BY Zenon
  <2> QED
    BY <2>1, <2>2 DEF TypeOK
<1>2. BoundInv
  BY SendAssumption DEF BoundInv, QueueBounded
<1>3. InWrites("pending") = {} /\ InWrites("sent") = {}
  BY DEF InWrites
<1>4. TurnInv
  BY <1>3 DEF TurnInv, Active
<1>5. OneWriteUnlessRaced
  BY <1>3 DEF OneWriteUnlessRaced, Active
<1>6. SplitInv
  <2>1. Len(m_send_queue) = 0 /\ Len(wire) = 0 /\ accepted = 0
    OBVIOUS
  <2> HIDE DEF Init
  <2>2. 1..Len(m_send_queue) = {} /\ 1..Len(wire) = {}
    BY <2>1
  <2>3. Len(m_send_queue) <= accepted /\ Len(wire) = accepted - Len(m_send_queue)
    BY <2>1
  <2> QED
    BY <1>3, <2>2, <2>3 DEF SplitInv
<1>7. AcceptedInv /\ AttendedInv
  BY DEF AcceptedInv, AttendedInv
<1> QED
  BY <1>1, <1>2, <1>4, <1>5, <1>6, <1>7 DEF IInv

(* Every step keeps the types.                                             *)
LEMMA StepTypeOK == TypeOK /\ [Next]_vars => TypeOK'
<1> SUFFICES ASSUME TypeOK, [Next]_vars PROVE TypeOK'
  OBVIOUS
<1> USE DEF TypeOK, NoteRace
<1>0. writes \in Seq(Write)
  BY DEF Write, Status
<1>1. ASSUME WriteFront PROVE writes' \in Seq(Write) /\ ub' \in BOOLEAN
  BY <1>0, <1>1, WriteFrontProperties DEF WriteFront
<1>2. ASSUME NEW w \in DOMAIN writes, NEW status \in Status, Become(w, status)
      PROVE  writes' \in Seq(Write)
  BY <1>0, <1>2, BecomeProperties
<1>3. CASE SendBegin
  BY <1>3 DEF SendBegin, Idle
<1>4. CASE SendPush
  <2>1. accepted + 1 \in Response /\ accepted + 1 \in Nat
    BY DEF Response
  <2>2. m_send_queue' \in Seq(Response)
    BY <1>4, <2>1, AppendProperties DEF SendPush
  <2> QED
    BY <1>4, <2>1, <2>2 DEF SendPush, LeftToOthers, Idle
<1>5. CASE SendWrite
  BY <1>1, <1>5 DEF SendWrite, Idle, Write, Status
<1>6. ASSUME NEW w \in DOMAIN writes, Transmit(w) PROVE TypeOK'
  <2>1. writes' \in Seq(Write)
    BY <1>0, <1>2, <1>6 DEF Transmit, Status
  <2>2. writes[w].no \in Response
    BY WriteType
  <2>3. wire' \in Seq(Response)
    <3>1. wire' = wire \/ wire' = Append(wire, writes[w].no)
      BY <1>6, Zenon DEF Transmit
    <3> QED
      BY <2>2, <3>1, AppendProperties
  <2>4. ub' \in BOOLEAN
    BY <1>6, Zenon DEF Transmit
  <2> QED
    BY <1>6, <2>1, <2>3, <2>4 DEF Transmit, Write, Status
<1>7. ASSUME NEW w \in DOMAIN writes, WriteFails(w) PROVE TypeOK'
  BY <1>2, <1>7 DEF WriteFails, Write, Status
<1>8. CASE CloseByReader
  BY <1>8 DEF CloseByReader
<1>9. ASSUME NEW t \in IoThreads, NEW w \in DOMAIN writes, HandlerPop(t, w)
      PROVE  TypeOK'
  <2>1. writes' \in Seq(Write)
    BY <1>0, <1>2, <1>9 DEF HandlerPop, Status
  <2>2. ub' \in BOOLEAN
    BY <1>9, Zenon DEF HandlerPop
  <2>3. m_send_queue' \in Seq(Response)
    <3>1. \/ m_send_queue' = m_send_queue
          \/ m_send_queue # <<>> /\ m_send_queue' = Tail(m_send_queue)
      BY <1>9, Zenon DEF HandlerPop
    <3> QED
      BY <3>1, PopProperties
  <2>4. handler' \in [IoThreads -> {"idle", "popped", "front"}]
    BY <1>9 DEF HandlerPop
  <2> QED
    BY <1>9, <2>1, <2>2, <2>3, <2>4 DEF HandlerPop, Write, Status
<1>10. ASSUME NEW t \in IoThreads, NEW w \in DOMAIN writes, HandlerError(t, w)
       PROVE  TypeOK'
  BY <1>2, <1>10 DEF HandlerError, Write, Status
<1>11. ASSUME NEW t \in IoThreads, HandlerEmpty(t) PROVE TypeOK'
  BY <1>11 DEF HandlerEmpty
<1>12. ASSUME NEW t \in IoThreads, HandlerWrite(t) PROVE TypeOK'
  BY <1>1, <1>12 DEF HandlerWrite, Write, Status
<1>13. CASE UNCHANGED vars
  BY <1>13 DEF vars
<1> QED
  BY <1>3, <1>4, <1>5, <1>6, <1>7, <1>8, <1>9, <1>10, <1>11, <1>12, <1>13
     DEF Next, SenderStep, SocketStep, HandlerBegin, HandlerStep

(* Only the sender adds to the queue, after reading a size within the      *)
(* limit, so the bound needs no turns.                                     *)
LEMMA StepBound == TypeOK /\ BoundInv /\ [Next]_vars => BoundInv'
<1> SUFFICES ASSUME TypeOK, BoundInv, [Next]_vars PROVE BoundInv'
  OBVIOUS
<1> USE SendAssumption DEF TypeOK, BoundInv, QueueBounded
<1>1. CASE SendBegin
  BY <1>1 DEF SendBegin, OverLimit, Idle
<1>2. CASE SendPush
  BY <1>2 DEF SendPush, Idle, Response
<1>3. CASE SendWrite
  BY <1>3 DEF SendWrite, Idle
<1>4. ASSUME NEW t \in IoThreads, NEW w \in DOMAIN writes, HandlerPop(t, w)
      PROVE  BoundInv'
  BY <1>4 DEF HandlerPop
<1>5. ASSUME UNCHANGED <<m_send_queue, sender>> PROVE BoundInv'
  BY <1>5
<1>6. ASSUME NEW w \in DOMAIN writes, Transmit(w) \/ WriteFails(w)
      PROVE  UNCHANGED <<m_send_queue, sender>>
  BY <1>6 DEF Transmit, WriteFails
<1>7. ASSUME NEW t \in IoThreads, HandlerStep(t)
      PROVE  UNCHANGED <<m_send_queue, sender>>
  BY <1>7 DEF HandlerStep, HandlerEmpty, HandlerWrite
<1>8. ASSUME NEW t \in IoThreads, NEW w \in DOMAIN writes, HandlerError(t, w)
      PROVE  UNCHANGED <<m_send_queue, sender>>
  BY <1>8 DEF HandlerError
<1>9. CASE CloseByReader \/ UNCHANGED vars
  BY <1>5, <1>9 DEF CloseByReader, vars
<1> QED
  BY <1>1, <1>2, <1>3, <1>4, <1>5, <1>6, <1>7, <1>8, <1>9
     DEF Next, SenderStep, SocketStep, HandlerBegin

(* A number gets from the queue to a write and from there to the wire, and *)
(* into the queue when it is accepted.                                     *)
LEMMA StepAccepted == TypeOK /\ AcceptedInv /\ [Next]_vars => AcceptedInv'
<1> SUFFICES ASSUME TypeOK, AcceptedInv, [Next]_vars PROVE AcceptedInv'
  OBVIOUS
<1> USE DEF AcceptedInv
<1>0. /\ writes \in Seq(Write) /\ m_send_queue \in Seq(Response) /\ wire \in Seq(Response)
      /\ accepted \in Nat /\ \A i \in DOMAIN m_send_queue : m_send_queue[i] \in Nat
  BY DEF TypeOK, Write, Response
<1>1. ASSUME WriteFront PROVE \A w \in DOMAIN writes' : writes'[w].no <= accepted
  <2>1. CASE m_send_queue = <<>>
    BY <1>1, <2>1 DEF WriteFront
  <2>2. CASE m_send_queue # <<>>
    <3>1. Head(m_send_queue) <= accepted
      BY <1>0, <2>2
    <3> QED
      BY <1>0, <1>1, <2>2, <3>1, WriteFrontProperties
  <2> QED
    BY <2>1, <2>2
<1>2. ASSUME NEW w \in DOMAIN writes, NEW status \in Status, Become(w, status)
      PROVE  \A v \in DOMAIN writes' : writes'[v].no <= accepted
  BY <1>0, <1>2, BecomeProperties
<1>3. CASE SendPush
  <2>1. /\ m_send_queue' = Append(m_send_queue, accepted + 1) /\ accepted' = accepted + 1
        /\ UNCHANGED <<writes, wire>>
    BY <1>3 DEF SendPush
  <2>2. accepted + 1 \in Response
    BY <1>0 DEF Response
  <2>3. \A i \in DOMAIN m_send_queue' : m_send_queue'[i] <= accepted'
    BY <1>0, <2>1, <2>2
  <2>4. \A w \in DOMAIN writes : writes[w].no \in Nat
    BY WriteType DEF Response
  <2> QED
    BY <1>0, <2>1, <2>3, <2>4 DEF Response
<1>4. CASE SendWrite
  BY <1>1, <1>4 DEF SendWrite
<1>5. ASSUME NEW w \in DOMAIN writes, Transmit(w) PROVE AcceptedInv'
  <2>1. Become(w, "sent") \/ writes' = writes
    BY <1>5, Zenon DEF Transmit
  <2>2. wire' = wire \/ wire' = Append(wire, writes[w].no)
    BY <1>5, Zenon DEF Transmit
  <2>3. \A v \in DOMAIN writes' : writes'[v].no <= accepted
    BY <1>2, <2>1 DEF Status
  <2>4. writes[w].no \in Response
    BY WriteType
  <2>5. \A i \in DOMAIN wire' : wire'[i] <= accepted
    <3>1. writes[w].no <= accepted
      OBVIOUS
    <3>2. CASE wire' = Append(wire, writes[w].no)
      <4>1. /\ DOMAIN wire' = 1..(Len(wire) + 1) /\ wire'[Len(wire) + 1] = writes[w].no
            /\ \A i \in 1..Len(wire) : wire'[i] = wire[i]
        BY <1>0, <2>4, <3>2, AppendProperties
      <4>2. ASSUME NEW i \in DOMAIN wire' PROVE i \in DOMAIN wire \/ i = Len(wire) + 1
        BY <1>0, <4>1
      <4> QED
        BY <3>1, <4>1, <4>2, <1>0
    <3> QED
      BY <2>2, <3>2
  <2> QED
    BY <1>5, <2>3, <2>5 DEF Transmit
<1>6. ASSUME NEW w \in DOMAIN writes, WriteFails(w) PROVE AcceptedInv'
  BY <1>2, <1>6 DEF WriteFails, Status
<1>7. ASSUME NEW t \in IoThreads, NEW w \in DOMAIN writes, HandlerPop(t, w)
      PROVE  AcceptedInv'
  <2>1. \/ m_send_queue' = m_send_queue
        \/ m_send_queue # <<>> /\ m_send_queue' = Tail(m_send_queue)
    BY <1>7, Zenon DEF HandlerPop
  <2>2. \A i \in DOMAIN m_send_queue' : m_send_queue'[i] <= accepted
    <3>1. CASE m_send_queue # <<>> /\ m_send_queue' = Tail(m_send_queue)
      <4>1. /\ m_send_queue' \in Seq(Response) /\ Len(m_send_queue') = Len(m_send_queue) - 1
            /\ \A i \in 1..Len(m_send_queue') : m_send_queue'[i] = m_send_queue[i + 1]
        BY <1>0, <3>1, PopProperties
      <4>2. \A i \in 1..Len(m_send_queue') : i + 1 \in DOMAIN m_send_queue
        BY <1>0, <4>1
      <4> QED
        BY <4>1, <4>2
    <3> QED
      BY <2>1, <3>1
  <2>3. \A v \in DOMAIN writes' : writes'[v].no <= accepted
    BY <1>2, <1>7 DEF HandlerPop, Status
  <2> QED
    BY <1>7, <2>2, <2>3 DEF HandlerPop
<1>8. ASSUME NEW t \in IoThreads, NEW w \in DOMAIN writes, HandlerError(t, w)
      PROVE  AcceptedInv'
  BY <1>2, <1>8 DEF HandlerError, Status
<1>9. ASSUME NEW t \in IoThreads, HandlerStep(t) PROVE AcceptedInv'
  BY <1>1, <1>9 DEF HandlerStep, HandlerEmpty, HandlerWrite
<1>10. CASE SendBegin \/ CloseByReader \/ UNCHANGED vars
  BY <1>10 DEF SendBegin, CloseByReader, vars
<1> QED
  BY <1>3, <1>4, <1>5, <1>6, <1>7, <1>8, <1>9, <1>10
     DEF Next, SenderStep, SocketStep, HandlerBegin

---------------------------------------------------------------------------

(* A step of send or of write_handler that keeps raced FALSE leaves one of *)
(* the two idle.                                                           *)
LEMMA TakingTurns ==
  ASSUME NoteRace, ~raced'
  PROVE  /\ ~raced
         /\ sender'.pc # "idle" => \A t \in IoThreads : handler'[t] = "idle"
  BY Zenon DEF NoteRace

(* How Become moves a write from one status to another.                    *)
LEMMA BecomeSets ==
  ASSUME TypeOK, NEW w \in DOMAIN writes, NEW status \in Status, Become(w, status)
  PROVE  /\ InWrites(status)' = InWrites(status) \cup {w}
         /\ \A other \in Status : other # status => InWrites(other)' = InWrites(other) \ {w}
         /\ \A v \in DOMAIN writes : writes'[v].no = writes[v].no
<1>1. writes \in Seq(Write)
  BY DEF TypeOK, Write
<1> QED
  BY <1>1, BecomeProperties DEF InWrites

(* A new write of the front is pending, and nothing else changes.          *)
LEMMA WriteFrontSets ==
  ASSUME TypeOK, m_send_queue # <<>>, WriteFront
  PROVE  /\ Len(writes) + 1 \notin DOMAIN writes
         /\ InWrites("pending")' = InWrites("pending") \cup {Len(writes) + 1}
         /\ InWrites("sent")' = InWrites("sent")
         /\ writes'[Len(writes) + 1].no = Head(m_send_queue)
         /\ ub' = ub
<1>1. writes \in Seq(Write) /\ m_send_queue \in Seq(Response)
  BY DEF TypeOK, Write
<1> QED
  BY <1>1, WriteFrontProperties DEF InWrites

(* What holds while send and write_handler take turns.                     *)
Serial == TurnInv /\ OneWriteUnlessRaced /\ SplitInv

(* The writes and the handlers' knowledge of them survive a step that      *)
(* changes neither.                                                        *)
LEMMA SetsUnchanged ==
  ASSUME UNCHANGED writes
  PROVE  /\ Active' = Active
         /\ InWrites("sent")' = InWrites("sent")
  BY DEF Active, InWrites

(* The three steps of send keep the turns.                                 *)
LEMMA SenderSerial ==
  ASSUME TypeOK, Serial, ~raced', SendBegin \/ SendPush \/ SendWrite
  PROVE  Serial'
<1> USE DEF Serial
<1>0. ~raced /\ (sender'.pc # "idle" => \A t \in IoThreads : handler'[t] = "idle")
  BY TakingTurns DEF SendBegin, SendPush, SendWrite
<1>1. CASE SendBegin
  <2>1. Active' = Active /\ InWrites("sent")' = InWrites("sent")
    BY <1>1, SetsUnchanged DEF SendBegin
  <2>2. sender'.pc = "idle" \/ sender' = [pc |-> "push", que_size |-> Len(m_send_queue)]
    BY <1>1 DEF SendBegin, Idle
  <2>3. UNCHANGED <<m_send_queue, handler, writes, wire, accepted, ub>>
    BY <1>1 DEF SendBegin
  <2>4. TurnInv'
    BY <1>0, <2>1, <2>2, <2>3 DEF TurnInv
  <2>5. OneWriteUnlessRaced'
    BY <1>0, <2>1, <2>3 DEF OneWriteUnlessRaced
  <2>6. SplitInv'
    BY <2>1, <2>3 DEF SplitInv
  <2> QED
    BY <2>4, <2>5, <2>6
<1>2. CASE SendPush
  <2>1. Active' = Active /\ InWrites("sent")' = InWrites("sent")
    BY <1>2, SetsUnchanged DEF SendPush
  <2>2. /\ m_send_queue \in Seq(Response) /\ wire \in Seq(Response) /\ accepted \in Nat
        /\ accepted + 1 \in Response
    BY DEF TypeOK, Response
  <2>3. /\ m_send_queue' \in Seq(Response)
        /\ Len(m_send_queue') = Len(m_send_queue) + 1
        /\ \A i \in 1..Len(m_send_queue) : m_send_queue'[i] = m_send_queue[i]
        /\ m_send_queue'[Len(m_send_queue) + 1] = accepted + 1
    BY <1>2, <2>2, AppendProperties DEF SendPush
  <2>4. UNCHANGED <<handler, writes, wire, ub>> /\ accepted' = accepted + 1
    BY <1>2 DEF SendPush
  <2>5. m_send_queue = <<>> => Active = {}
    BY <1>0 DEF OneWriteUnlessRaced
  <2>6. sender'.pc = "idle" \/ (sender'.pc = "write" /\ m_send_queue = <<>>)
    BY <1>2, <2>2 DEF SendPush, LeftToOthers, Idle, TurnInv, TypeOK
  <2>7. TurnInv'
    BY <1>0, <2>1, <2>2, <2>3, <2>4, <2>5, <2>6 DEF TurnInv
  <2>8. m_send_queue # <<>> => m_send_queue' # <<>> /\ Head(m_send_queue') = Head(m_send_queue)
    BY <2>2, <2>3
  <2>9. OneWriteUnlessRaced'
    BY <1>0, <2>1, <2>4, <2>5, <2>8 DEF OneWriteUnlessRaced
  <2>10. SplitInv'
    <3>1. Len(m_send_queue) \in Nat /\ Len(wire) \in Nat
      BY <2>2
    <3>2. \A i \in 1..Len(m_send_queue') :
            m_send_queue'[i] = accepted' - Len(m_send_queue') + i
      <4> TAKE i \in 1..Len(m_send_queue')
      <4>1. CASE i \in 1..Len(m_send_queue)
        BY <2>2, <2>3, <2>4, <3>1, <4>1 DEF SplitInv
      <4>2. CASE i = Len(m_send_queue) + 1
        BY <2>2, <2>3, <2>4, <3>1, <4>2
      <4> QED
        BY <2>3, <3>1, <4>1, <4>2
    <3>3. /\ Len(m_send_queue') <= accepted'
          /\ accepted' - Len(m_send_queue') = accepted - Len(m_send_queue)
      BY <2>2, <2>3, <2>4, <3>1 DEF SplitInv
    <3> QED
      BY <2>1, <2>4, <3>2, <3>3 DEF SplitInv
  <2> QED
    BY <2>7, <2>9, <2>10
<1>3. CASE SendWrite
  <2>1. sender.pc = "write" /\ Len(m_send_queue) = 1 /\ Active = {}
    BY <1>3 DEF SendWrite, TurnInv
  <2>2. m_send_queue # <<>>
    BY <2>1
  <2>3. /\ Active' = {Len(writes) + 1} /\ InWrites("sent")' = InWrites("sent")
        /\ writes'[Len(writes) + 1].no = Head(m_send_queue) /\ ub' = ub
    BY <1>3, <2>1, <2>2, WriteFrontSets DEF SendWrite, Active
  <2>4. UNCHANGED <<m_send_queue, handler, wire, accepted>> /\ sender'.pc = "idle"
    BY <1>3 DEF SendWrite, Idle
  <2>5. TurnInv'
    BY <2>1, <2>3, <2>4 DEF TurnInv
  <2>6. OneWriteUnlessRaced'
    BY <2>2, <2>3, <2>4 DEF OneWriteUnlessRaced
  <2>7. SplitInv'
    BY <2>3, <2>4 DEF SplitInv
  <2> QED
    BY <2>5, <2>6, <2>7
<1> QED
  BY <1>1, <1>2, <1>3

(* The socket and the closing of the session keep the turns.               *)
LEMMA SocketSerial ==
  ASSUME TypeOK, Serial, ~raced',
         SocketStep \/ CloseByReader \/ UNCHANGED vars
  PROVE  Serial'
<1> USE DEF Serial
<1>0. ~raced /\ UNCHANGED raced
  BY DEF SocketStep, Transmit, WriteFails, CloseByReader, vars
<1>1. ASSUME NEW w \in DOMAIN writes, Transmit(w) PROVE Serial'
  <2>1. w \in InWrites("pending") /\ w \in Active
    BY <1>1 DEF Transmit, Active
  <2>2. m_send_queue # <<>> /\ writes[w].no = Head(m_send_queue) /\ \A v \in Active : v = w
    BY <1>0, <2>1 DEF OneWriteUnlessRaced
  <2>3. m_send_queue \in Seq(Response) /\ wire \in Seq(Response) /\ accepted \in Nat
    BY DEF TypeOK
  <2>4. Len(m_send_queue) > 0 /\ Head(m_send_queue) = m_send_queue[1]
    BY <2>2, <2>3
  <2>5. \E i \in DOMAIN m_send_queue : m_send_queue[i] = writes[w].no
    BY <2>2, <2>3, <2>4
  <2>6. Become(w, "sent") /\ wire' = Append(wire, writes[w].no) /\ UNCHANGED ub
    BY <1>1, <2>5, Zenon DEF Transmit
  <2>7. UNCHANGED <<m_send_queue, sender, handler, accepted>>
    BY <1>1 DEF Transmit
  <2>8. /\ InWrites("sent")' = InWrites("sent") \cup {w}
        /\ InWrites("pending")' = InWrites("pending") \ {w}
        /\ \A v \in DOMAIN writes : writes'[v].no = writes[v].no
    BY <2>6, BecomeSets DEF Status
  <2>9. Active' = Active
    BY <2>1, <2>8 DEF Active
  <2>10. w \notin InWrites("sent") /\ InWrites("sent") = {}
    BY <2>1, <2>2 DEF InWrites, Active
  <2>11. TurnInv'
    BY <2>1, <2>6, <2>7, <2>9 DEF TurnInv
  <2>12. OneWriteUnlessRaced'
    BY <1>0, <2>7, <2>8, <2>9 DEF OneWriteUnlessRaced, Active, InWrites
  <2>13. writes[w].no = accepted - Len(m_send_queue) + 1 /\ Len(wire) = accepted - Len(m_send_queue)
    BY <2>2, <2>3, <2>4, <2>10 DEF SplitInv
  <2>14. SplitInv'
    <3>1. Len(wire') = Len(wire) + 1 /\ wire'[Len(wire) + 1] = Len(wire) + 1
      BY <2>3, <2>6, <2>13
    <3>2. \A i \in 1..Len(wire') : wire'[i] = i
      BY <2>3, <2>6, <2>13, <3>1 DEF SplitInv
    <3> QED
      BY <2>3, <2>7, <2>8, <2>13, <3>1, <3>2 DEF SplitInv
  <2> QED
    BY <2>11, <2>12, <2>14
<1>2. ASSUME NEW w \in DOMAIN writes, WriteFails(w) PROVE Serial'
  <2>1. w \in InWrites("pending") /\ Become(w, "failed")
    BY <1>2 DEF WriteFails
  <2>2. UNCHANGED <<m_send_queue, sender, handler, accepted, wire, ub>>
    BY <1>2 DEF WriteFails
  <2>3. w \notin InWrites("sent")
    BY <2>1 DEF InWrites
  <2>4. /\ InWrites("sent")' = InWrites("sent")
        /\ InWrites("pending")' = InWrites("pending") \ {w}
        /\ \A v \in DOMAIN writes : writes'[v].no = writes[v].no
    BY <2>1, <2>3, BecomeSets DEF Status
  <2>5. Active' \subseteq Active
    BY <2>4 DEF Active
  <2>6. TurnInv'
    BY <2>2, <2>5 DEF TurnInv
  <2>7. OneWriteUnlessRaced'
    BY <1>0, <2>2, <2>4, <2>5 DEF OneWriteUnlessRaced, Active, InWrites
  <2>8. SplitInv'
    BY <2>2, <2>4 DEF SplitInv
  <2> QED
    BY <2>6, <2>7, <2>8
<1>3. CASE CloseByReader \/ UNCHANGED vars
  <2>1. UNCHANGED <<m_send_queue, sender, handler, writes, wire, accepted, ub>>
    BY <1>3 DEF CloseByReader, vars
  <2>2. Active' = Active /\ InWrites("sent")' = InWrites("sent")
    BY <2>1, SetsUnchanged
  <2> QED
    BY <1>0, <2>1, <2>2 DEF TurnInv, OneWriteUnlessRaced, SplitInv
<1> QED
  BY <1>1, <1>2, <1>3 DEF SocketStep

(* The steps of write_handler keep the turns.                              *)
LEMMA HandlerSerial ==
  ASSUME TypeOK, Serial, ~raced',
         HandlerBegin \/ \E t \in IoThreads : HandlerStep(t)
  PROVE  Serial'
<1> USE DEF Serial
<1>1. ASSUME NEW t \in IoThreads, NEW w \in DOMAIN writes, HandlerPop(t, w)
      PROVE  Serial'
  <2>0. ~raced /\ (sender'.pc # "idle" => \A u \in IoThreads : handler'[u] = "idle")
    BY <1>1, TakingTurns DEF HandlerPop
  <2>1. w \in InWrites("sent") /\ w \in Active /\ Become(w, "done")
    BY <1>1 DEF HandlerPop, Active
  <2>2. m_send_queue # <<>> /\ \A v \in Active : v = w
    BY <2>0, <2>1 DEF OneWriteUnlessRaced
  <2>3. m_send_queue \in Seq(Response) /\ wire \in Seq(Response) /\ accepted \in Nat
    BY DEF TypeOK
  <2>4. /\ m_send_queue' = Tail(m_send_queue) /\ UNCHANGED ub
        /\ handler' = [handler EXCEPT ![t] = "popped"]
    BY <1>1, <2>2, Zenon DEF HandlerPop
  <2>5. UNCHANGED <<sender, wire, accepted>>
    BY <1>1 DEF HandlerPop
  <2>6. /\ InWrites("sent")' = InWrites("sent") \ {w}
        /\ InWrites("pending")' = InWrites("pending") \ {w}
    BY <2>1, BecomeSets DEF Status
  <2>7. Active' = {} /\ InWrites("sent")' = {}
    BY <2>2, <2>6 DEF Active
  <2>8. \A u \in IoThreads : handler[u] = "idle"
    BY <2>1 DEF TurnInv
  <2>9. /\ handler'[t] = "popped"
        /\ \A u \in IoThreads : u # t => handler'[u] = "idle"
    BY <2>4, <2>8 DEF TypeOK
  <2>10. TurnInv'
    BY <2>0, <2>4, <2>7, <2>9 DEF TurnInv
  <2>11. OneWriteUnlessRaced'
    BY <2>7 DEF OneWriteUnlessRaced
  <2>12. /\ m_send_queue' \in Seq(Response)
         /\ Len(m_send_queue') = Len(m_send_queue) - 1
         /\ \A i \in 1..Len(m_send_queue') : m_send_queue'[i] = m_send_queue[i + 1]
    BY <2>2, <2>3, <2>4, PopProperties
  <2>13. SplitInv'
    <3>1. Len(m_send_queue) \in Nat /\ Len(m_send_queue') \in Nat /\ Len(wire) \in Nat
      BY <2>3, <2>12
    <3>2. Len(wire) = accepted - Len(m_send_queue) + 1
      BY <2>1 DEF SplitInv
    <3>3. \A i \in 1..Len(m_send_queue') :
            m_send_queue'[i] = accepted' - Len(m_send_queue') + i
      BY <2>3, <2>5, <2>12, <3>1 DEF SplitInv
    <3> QED
      BY <2>3, <2>5, <2>7, <2>12, <3>1, <3>2, <3>3 DEF SplitInv
  <2> QED
    BY <2>10, <2>11, <2>13
<1>2. ASSUME NEW t \in IoThreads, NEW w \in DOMAIN writes, HandlerError(t, w)
      PROVE  Serial'
  <2>1. w \in InWrites("failed") /\ Become(w, "done")
    BY <1>2 DEF HandlerError
  <2>2. UNCHANGED <<m_send_queue, sender, handler, accepted, wire, ub, raced>>
    BY <1>2 DEF HandlerError
  <2>3. w \notin InWrites("sent") /\ w \notin InWrites("pending")
    BY <2>1 DEF InWrites
  <2>4. /\ InWrites("sent")' = InWrites("sent")
        /\ InWrites("pending")' = InWrites("pending")
        /\ \A v \in DOMAIN writes : writes'[v].no = writes[v].no
    BY <2>1, <2>3, BecomeSets DEF Status
  <2>5. Active' = Active
    BY <2>4 DEF Active
  <2>6. TurnInv' /\ SplitInv'
    BY <2>2, <2>4, <2>5 DEF TurnInv, SplitInv
  <2>7. OneWriteUnlessRaced'
    BY <2>2, <2>4, <2>5 DEF OneWriteUnlessRaced, Active, InWrites
  <2> QED
    BY <2>6, <2>7
<1>3. ASSUME NEW t \in IoThreads, HandlerEmpty(t) PROVE Serial'
  <2>0. ~raced /\ (sender'.pc # "idle" => \A u \in IoThreads : handler'[u] = "idle")
    BY <1>3, TakingTurns DEF HandlerEmpty
  <2>1. UNCHANGED <<m_send_queue, sender, writes, wire, accepted, ub>>
    BY <1>3 DEF HandlerEmpty
  <2>2. Active' = Active /\ InWrites("sent")' = InWrites("sent")
    BY <2>1, SetsUnchanged
  <2>3. handler[t] = "popped" /\ \A u \in IoThreads : u # t => handler[u] = "idle"
    BY <1>3 DEF HandlerEmpty, TurnInv
  <2>4. /\ handler'[t] \in {"idle", "front"}
        /\ handler'[t] = "front" => m_send_queue # <<>>
        /\ \A u \in IoThreads : u # t => handler'[u] = "idle"
    BY <1>3, <2>3 DEF HandlerEmpty, TypeOK
  <2>5. TurnInv'
    BY <2>0, <2>1, <2>2, <2>3, <2>4 DEF TurnInv
  <2>6. OneWriteUnlessRaced' /\ SplitInv'
    BY <2>0, <2>1, <2>2 DEF OneWriteUnlessRaced, SplitInv
  <2> QED
    BY <2>5, <2>6
<1>4. ASSUME NEW t \in IoThreads, HandlerWrite(t) PROVE Serial'
  <2>0. ~raced
    BY <1>4, TakingTurns DEF HandlerWrite
  <2>1. /\ m_send_queue # <<>> /\ Active = {} /\ sender.pc = "idle"
        /\ \A u \in IoThreads : u # t => handler[u] = "idle"
    BY <1>4 DEF HandlerWrite, TurnInv
  <2>2. /\ Active' = {Len(writes) + 1} /\ InWrites("sent")' = InWrites("sent")
        /\ writes'[Len(writes) + 1].no = Head(m_send_queue) /\ ub' = ub
    BY <1>4, <2>1, WriteFrontSets DEF HandlerWrite, Active
  <2>3. UNCHANGED <<m_send_queue, sender, wire, accepted>>
    BY <1>4 DEF HandlerWrite
  <2>4. \A u \in IoThreads : handler'[u] = "idle"
    BY <1>4, <2>1 DEF HandlerWrite, TypeOK
  <2>5. TurnInv'
    BY <2>1, <2>2, <2>3, <2>4 DEF TurnInv
  <2>6. OneWriteUnlessRaced'
    BY <2>1, <2>2, <2>3 DEF OneWriteUnlessRaced
  <2>7. SplitInv'
    BY <2>2, <2>3 DEF SplitInv
  <2> QED
    BY <2>5, <2>6, <2>7
<1> QED
  BY <1>1, <1>2, <1>3, <1>4 DEF HandlerBegin, HandlerStep

(* Who empties the queue, or hands the front to a write, hands on the care *)
(* for the rest.                                                           *)
LEMMA StepAttended ==
  ASSUME TypeOK, Serial, AttendedInv, ~raced', [Next]_vars
  PROVE  AttendedInv'
<1> USE DEF AttendedInv
<1>0. /\ m_send_queue \in Seq(Response) /\ {"pending", "sent", "failed", "done"} = Status
      /\ sender \in [pc : {"idle", "push", "write"}, que_size : Nat]
  BY DEF TypeOK, Status
<1>1. CASE UNCHANGED <<m_send_queue, handler, writes, m_is_stop>> /\ (sender.pc = "write" => sender'.pc = "write")
  BY <1>1 DEF Outstanding, InWrites
<1>2. CASE SendBegin \/ CloseByReader \/ UNCHANGED vars
  BY <1>1, <1>2 DEF SendBegin, CloseByReader, vars, Outstanding, InWrites
<1>3. CASE SendPush
  <2>1. Outstanding' = Outstanding /\ UNCHANGED <<handler, m_is_stop>>
    BY <1>3 DEF SendPush, Outstanding, InWrites
  <2>2. m_send_queue # <<>> \/ sender'.pc = "write"
    BY <1>0, <1>3 DEF SendPush, LeftToOthers, Serial, TurnInv
  <2> QED
    BY <1>3, <2>1, <2>2 DEF SendPush
<1>4. ASSUME WriteFront, m_send_queue # <<>> PROVE Outstanding' # {}
  BY <1>4, WriteFrontSets DEF Outstanding, InWrites
<1>5. CASE SendWrite
  <2>1. m_send_queue # <<>>
    BY <1>0, <1>5 DEF SendWrite, Serial, TurnInv
  <2> QED
    BY <1>4, <1>5, <2>1 DEF SendWrite
<1>6. ASSUME NEW w \in DOMAIN writes, Transmit(w) PROVE AttendedInv'
  <2>1. Become(w, "sent") \/ writes' = writes
    BY <1>6, Zenon DEF Transmit
  <2>2. Outstanding' # {}
    BY <1>6, <2>1, <1>0, BecomeSets DEF Transmit, Outstanding, InWrites
  <2> QED
    BY <2>2
<1>7. ASSUME NEW w \in DOMAIN writes, WriteFails(w) PROVE AttendedInv'
  BY <1>7, <1>0, BecomeSets DEF WriteFails, Outstanding
<1>8. ASSUME NEW t \in IoThreads, NEW w \in DOMAIN writes, HandlerPop(t, w)
      PROVE  AttendedInv'
  <2>1. m_send_queue # <<>>
    <3>1. ~raced /\ w \in Active
      BY <1>8, TakingTurns DEF HandlerPop, Active
    <3> QED
      BY <3>1 DEF Serial, OneWriteUnlessRaced
  <2>2. handler' = [handler EXCEPT ![t] = "popped"]
    BY <1>8, <2>1, Zenon DEF HandlerPop
  <2> QED
    BY <2>2 DEF TypeOK
<1>9. ASSUME NEW t \in IoThreads, NEW w \in DOMAIN writes, HandlerError(t, w)
      PROVE  AttendedInv'
  BY <1>9 DEF HandlerError
<1>10. ASSUME NEW t \in IoThreads, HandlerEmpty(t) PROVE AttendedInv'
  BY <1>10 DEF HandlerEmpty, TypeOK
<1>11. ASSUME NEW t \in IoThreads, HandlerWrite(t) PROVE AttendedInv'
  BY <1>4, <1>11 DEF HandlerWrite, Serial, TurnInv
<1> QED
  BY <1>2, <1>3, <1>5, <1>6, <1>7, <1>8, <1>9, <1>10, <1>11
     DEF Next, SenderStep, SocketStep, HandlerBegin, HandlerStep

(* Every step preserves the inductive invariant.                           *)
LEMMA StepIInv == IInv /\ [Next]_vars => IInv'
<1> SUFFICES ASSUME IInv, [Next]_vars PROVE IInv'
  OBVIOUS
<1>1. TypeOK' /\ BoundInv' /\ AcceptedInv'
  BY StepTypeOK, StepBound, StepAccepted DEF IInv
<1>2. ASSUME ~raced' PROVE ~raced
  BY <1>2, Zenon DEF Next, SenderStep, SocketStep, HandlerBegin, HandlerStep, SendBegin,
     SendPush, SendWrite, Transmit, WriteFails, CloseByReader, HandlerError, HandlerPop,
     HandlerEmpty, HandlerWrite, NoteRace, vars
<1>3. ASSUME ~raced' PROVE Serial' /\ AttendedInv'
  <2>1. TypeOK /\ Serial /\ AttendedInv
    BY <1>2, <1>3 DEF IInv, Serial
  <2>2. \/ SendBegin \/ SendPush \/ SendWrite
        \/ SocketStep \/ CloseByReader \/ UNCHANGED vars
        \/ HandlerBegin \/ \E t \in IoThreads : HandlerStep(t)
    BY DEF Next, SenderStep
  <2> QED
    BY <1>3, <2>1, <2>2, SenderSerial, SocketSerial, HandlerSerial, StepAttended
<1> QED
  BY <1>1, <1>3 DEF IInv, Serial

(* The inductive invariant holds in every reachable state.                 *)
THEOREM Invariant == Spec => []IInv
  BY InitIInv, StepIInv, PTL DEF Spec

(* Type correctness of the sending half.                                   *)
THEOREM TypeCorrect == Spec => []TypeOK
<1>1. IInv => TypeOK
  BY DEF IInv
<1> QED
  BY <1>1, Invariant, PTL

(* m_send_queue never holds more than MAX_SENDQUE + 1 responses, however   *)
(* send and write_handler interleave.                                      *)
THEOREM Bounded == Spec => []QueueBounded
<1>1. IInv => QueueBounded
  BY DEF IInv, BoundInv
<1> QED
  BY <1>1, Invariant, PTL

(* Without an overlap of send and write_handler no empty queue is popped   *)
(* and no freed body is written.                                           *)
THEOREM Defined == Spec => []DefinedUnlessRaced
<1>1. IInv => DefinedUnlessRaced
  BY Zenon DEF IInv, TurnInv, DefinedUnlessRaced
<1> QED
  BY <1>1, Invariant, PTL

(* Without an overlap one async_write at a time is outstanding, and it     *)
(* writes the front of the queue.                                          *)
THEOREM OneWrite == Spec => []OneWriteUnlessRaced
<1>1. IInv => OneWriteUnlessRaced
  BY Zenon DEF IInv, OneWriteUnlessRaced
<1> QED
  BY <1>1, Invariant, PTL

(* The order of the wire is part of what SplitInv says. *)
LEMMA SplitOrder == IInv => InOrderUnlessRaced
<1> SUFFICES ASSUME IInv, ~raced PROVE InOrderUnlessRaced
  BY DEF InOrderUnlessRaced
<1>1. TypeOK /\ OneWriteUnlessRaced /\ SplitInv
  BY DEF IInv
<1>2. m_send_queue \in Seq(Response) /\ wire \in Seq(Response) /\ accepted \in Nat
  BY <1>1 DEF TypeOK
<1>3. InWrites("sent") # {} => m_send_queue # <<>>
  BY <1>1 DEF OneWriteUnlessRaced, Active
<1>4. Len(wire) <= accepted
  BY <1>1, <1>2, <1>3 DEF SplitInv
<1> QED
  BY <1>1, <1>2, <1>4 DEF SplitInv, InOrderUnlessRaced

(* Without an overlap the peer gets the accepted responses in order.       *)
THEOREM InOrder == Spec => []InOrderUnlessRaced
  BY SplitOrder, Invariant, PTL

(* Without an overlap no queued response is left to nobody: the claim of   *)
(* finding 3, which the overlap breaks.                                    *)
THEOREM Attended == Spec => []AttendedUnlessRaced
<1>1. IInv => AttendedUnlessRaced
  BY Zenon DEF IInv, AttendedInv, AttendedUnlessRaced
<1> QED
  BY <1>1, Invariant, PTL

---------------------------------------------------------------------------
(* The sending half implements the FIFO channel until the first overlap: a *)
(* push is a Put, a transmission a Get.                                    *)

LEMMA StepChannel == IInv /\ IInv' /\ [Next]_vars => [raced' \/ Channel!Next]_(Channel!vars)
<1> SUFFICES ASSUME IInv, IInv', [Next]_vars, ~raced'
             PROVE  Channel!Next \/ UNCHANGED Channel!vars
  OBVIOUS
<1> DEFINE put == [i \in 1..accepted |-> i]
<1> USE DEF Channel!Next, Channel!vars
<1>0. accepted \in Nat /\ wire \in Seq(Response) /\ wire' \in Seq(Response)
  BY DEF IInv, TypeOK
<1>1. CASE UNCHANGED <<accepted, wire>>
  BY <1>1
<1>2. CASE SendPush
  <2>1. accepted' = accepted + 1 /\ wire' = wire
    BY <1>2 DEF SendPush
  <2>2. put \in Seq(Nat) /\ Len(put) = accepted
    BY <1>0
  <2>3. put' = Append(put, accepted + 1) /\ Len(put') = accepted + 1 /\ put'[accepted + 1] = accepted + 1
    BY <1>0, <2>1
  <2> QED
    BY <1>0, <2>1, <2>2, <2>3 DEF Channel!Put, Response
<1>3. ASSUME NEW w \in DOMAIN writes, Transmit(w)
      PROVE  Channel!Get \/ UNCHANGED <<accepted, wire>>
  <2>1. accepted' = accepted /\ (wire' = wire \/ wire' = Append(wire, writes[w].no))
    BY <1>3, Zenon DEF Transmit
  <2>2. CASE wire' = Append(wire, writes[w].no)
    <3>0. IInv' => InOrderUnlessRaced'
      BY SplitOrder, PTL
    <3>1. Len(wire') <= accepted /\ \A i \in DOMAIN wire' : wire'[i] = i
      BY <2>1, <3>0 DEF InOrderUnlessRaced
    <3>2. Len(wire') = Len(wire) + 1 /\ wire'[Len(wire) + 1] = writes[w].no
      BY <1>0, <2>2
    <3>3. writes[w].no = Len(wire) + 1 /\ Len(wire) < accepted
      BY <1>0, <3>1, <3>2
    <3>4. Len(put) = accepted /\ put[Len(wire) + 1] = Len(wire) + 1
      BY <1>0, <3>3
    <3> QED
      BY <2>1, <2>2, <3>3, <3>4 DEF Channel!Get
  <2> QED
    BY <2>1, <2>2
<1>4. CASE SocketStep
  BY <1>1, <1>3, <1>4 DEF SocketStep, WriteFails
<1>5. CASE SendBegin \/ SendWrite \/ CloseByReader \/ UNCHANGED vars
  BY <1>1, <1>5 DEF SendBegin, SendWrite, CloseByReader, vars
<1>6. CASE HandlerBegin \/ \E t \in IoThreads : HandlerStep(t)
  BY <1>1, <1>6 DEF HandlerBegin, HandlerPop, HandlerError, HandlerStep, HandlerEmpty, HandlerWrite
<1> QED
  BY <1>2, <1>4, <1>5, <1>6 DEF Next, SenderStep

(* Without an overlap the peer gets each accepted response once, in the    *)
(* order in which send accepted them.                                      *)
THEOREM ImplementsChannel == Spec => DeliversInOrderUnlessRaced
<1>1. Init => Channel!Init
  BY DEF Init, Channel!Init
<1> QED
  BY <1>1, StepChannel, Invariant, PTL DEF Spec, DeliversInOrderUnlessRaced
=============================================================================
