---------------------------- MODULE SessionRead ----------------------------
(***************************************************************************)
(* The reading half of CSession (csession.cpp): read_head and              *)
(* read_message_full take the peer's byte stream apart into messages.  The *)
(* bytes are abstracted to their positions in the stream, so that a body   *)
(* that holds the wrong bytes is told from one that holds the right ones.  *)
(* Lengths keep the widths of the code: 4 bytes on the wire, a signed int  *)
(* in read_head, an unsigned int in the RecvNode, a size_t in the reads.   *)
(* Assert is a no-op, as in every build without _DEBUG.                    *)
(***************************************************************************)
EXTENDS Integers, Sequences

CONSTANTS HEAD_TOTAL_LEN,    \* id and length on the wire
          BUFFER_TOTAL_LEN,  \* the size of m_data
          INT_LIMIT, SIZE,   \* 2^31 and 2^64: the numbers of an int start
                             \* over at the one, those of a size_t at the other
          Lengths,           \* the body lengths of the peer's messages
          MaxFrames          \* bound on the messages of a behaviour

UINT == 2 * INT_LIMIT        \* 2^32

ASSUME LenAssumption ==
  /\ HEAD_TOTAL_LEN \in Nat \ {0}
  /\ BUFFER_TOTAL_LEN \in Nat /\ BUFFER_TOTAL_LEN >= HEAD_TOTAL_LEN
  /\ INT_LIMIT \in Nat \ {0} /\ SIZE \in Nat /\ SIZE >= 2 * UINT
  /\ Lengths \subseteq 0..(UINT - 1)
  /\ MaxFrames \in Nat

VARIABLES
  sent,       \* the peer's messages: [start, len], start the bytes before it
  eof,        \* the peer has closed; bytes under way may be lost
  consumed,   \* the bytes of the stream that asio has copied out
  read,       \* the async_read outstanding: [kind, want, rest], rest being
              \* the read_total_len of read_message_full
  m_data,     \* what that read has copied so far
  nodes,      \* every RecvNode allocated: [total_len, body]; the last one is
              \* m_recv_node, and current_len is the length of body
  posted,     \* the nodes given to LogicSystem, as positions in nodes
  m_is_stop,  \* close() has run, and with it clear_session
  ub          \* a RecvNode was written outside its body: nothing is known
              \* any more

vars == <<sent, eof, consumed, read, m_data, nodes, posted, m_is_stop, ub>>

Minimum(a, b) == IF a <= b THEN a ELSE b

Written == IF sent = <<>> THEN 0
           ELSE sent[Len(sent)].start + HEAD_TOTAL_LEN + sent[Len(sent)].len

(* The positions of n bytes that follow the first p. *)
Bytes(p, n) == [i \in 1..n |-> p + i]
BodyOf(frame) == Bytes(frame.start + HEAD_TOTAL_LEN, frame.len)

HeadRead == [kind |-> "head", want |-> HEAD_TOTAL_LEN, rest |-> 0]
BodyReadBuffer(read_total_len) ==  \* a slip: m_data is always filled
  [kind |-> "body", want |-> BUFFER_TOTAL_LEN, rest |-> read_total_len]
BodyRead(read_total_len) ==
  [kind |-> "body", want |-> Minimum(read_total_len, BUFFER_TOTAL_LEN),
   rest |-> read_total_len]
NoRead == [kind |-> "none", want |-> 0, rest |-> 0]

Frame == [start : Nat, len : Lengths]
RecvNode == [total_len : Nat, body : Seq(Nat)]

TypeOK ==
  /\ sent \in Seq(Frame)
  /\ eof \in BOOLEAN /\ m_is_stop \in BOOLEAN /\ ub \in BOOLEAN
  /\ consumed \in Nat
  /\ read \in [kind : {"head", "body", "none"}, want : Nat, rest : Nat]
  /\ m_data \in Seq(Nat)
  /\ nodes \in Seq(RecvNode)
  /\ posted \in Seq(Nat)

(* CSession::start has run. *)
Init ==
  /\ sent = <<>> /\ eof = FALSE /\ consumed = 0
  /\ read = HeadRead /\ m_data = <<>>
  /\ nodes = <<>> /\ posted = <<>>
  /\ m_is_stop = FALSE /\ ub = FALSE

---------------------------------------------------------------------------
(* The peer and the network. *)

ClientSend ==
  /\ ~eof /\ Len(sent) < MaxFrames
  /\ \E n \in Lengths : sent' = Append(sent, [start |-> Written, len |-> n])
  /\ UNCHANGED <<eof, consumed, read, m_data, nodes, posted, m_is_stop, ub>>

ClientClose ==
  /\ ~eof
  /\ eof' = TRUE
  /\ UNCHANGED <<sent, consumed, read, m_data, nodes, posted, m_is_stop, ub>>

(* write_handler closes the session when a write, which answers a message  *)
(* posted, has failed.                                                     *)
CloseByWriter ==
  /\ ~m_is_stop /\ posted # <<>>
  /\ m_is_stop' = TRUE
  /\ UNCHANGED <<sent, eof, consumed, read, m_data, nodes, posted, ub>>

(* One of the read_somes of async_read, with any part of what has come. *)
Receive ==
  /\ read.kind # "none" /\ ~m_is_stop
  /\ \E n \in 1..Minimum(read.want - Len(m_data), Written - consumed) :
       /\ m_data' = m_data \o Bytes(consumed, n)
       /\ consumed' = consumed + n
  /\ UNCHANGED <<sent, eof, read, nodes, posted, m_is_stop, ub>>

---------------------------------------------------------------------------
(* The completion handlers. *)

CompleteNonEmpty(kind) ==                 \* a slip: an empty read is ignored
  read.kind = kind /\ Len(m_data) = read.want /\ m_data # <<>>
Complete(kind) == read.kind = kind /\ Len(m_data) = read.want

(* The memset of m_data and the next async_read. *)
StartRead(r) == read' = r /\ m_data' = <<>>

(* What the head in m_data says of the body's length: the length of the    *)
(* message that begins there, and anything at all where none begins.       *)
DecodedLens ==
  LET begins == {k \in DOMAIN sent : sent[k].start + 1 = m_data[1]}
  IN IF begins = {} THEN Lengths ELSE {sent[k].len : k \in begins}

(* The four bytes as an int, and the int as an unsigned int or a size_t.   *)
Int16(wire_len) ==                         \* a slip: half the width, here
  IF wire_len < INT_LIMIT \div 2 THEN wire_len ELSE wire_len - INT_LIMIT
Int32(wire_len) == IF wire_len < INT_LIMIT THEN wire_len ELSE wire_len - UINT
Unsigned(int) == IF int >= 0 THEN int ELSE int + UINT
Size(int) == IF int >= 0 THEN int ELSE int + SIZE

(* new char[total_len + 1], an unsigned sum, and body[total_len] = 0.      *)
ReuseNode(total_len) ==                    \* a slip: one node, used again
  /\ nodes' = <<[total_len |-> total_len, body |-> <<>>]>>
  /\ ub' = (total_len + 1 = UINT)
NewNode(total_len) ==
  /\ nodes' = Append(nodes, [total_len |-> total_len, body |-> <<>>])
  /\ ub' = (total_len + 1 = UINT)

HeadHandler ==
  /\ Complete("head")
  /\ \E wire_len \in DecodedLens :
       /\ NewNode(Unsigned(Int32(wire_len)))
       /\ StartRead(BodyRead(Size(Int32(wire_len))))
  /\ UNCHANGED <<sent, eof, consumed, posted, m_is_stop>>

m_recv_node == nodes[Len(nodes)]
is_fulled(node) == node.total_len = Len(node.body)

(* The chunk is appended; a full node is posted and the next head read,    *)
(* otherwise the rest is read.  The body has one byte more than total_len. *)
BodyHandler ==
  /\ Complete("body")
  /\ LET node == [m_recv_node EXCEPT !.body = @ \o m_data]
     IN /\ nodes' = [nodes EXCEPT ![Len(nodes)] = node]
        /\ ub' = (Len(node.body) > node.total_len + 1)
        /\ \/ /\ is_fulled(node)
              /\ posted' = Append(posted, Len(nodes))
              /\ StartRead(HeadRead)
           \/ /\ ~is_fulled(node)
              /\ StartRead(BodyRead(read.rest - Len(m_data)))
              /\ UNCHANGED posted
  /\ UNCHANGED <<sent, eof, consumed, m_is_stop>>

(* A read that lacks bytes fails when the peer has closed or the socket    *)
(* was closed.                                                             *)
ReadError ==
  /\ Len(m_data) < read.want /\ (eof \/ m_is_stop)
  /\ StartRead(NoRead)
  /\ m_is_stop' = TRUE
  /\ UNCHANGED <<sent, eof, consumed, nodes, posted, ub>>

Session == Receive \/ HeadHandler \/ BodyHandler \/ ReadError

(* Nothing is specified after undefined behaviour. *)
Next == ~ub /\ (ClientSend \/ ClientClose \/ CloseByWriter \/ Session)

Spec == Init /\ [][Next]_vars

(* The network delivers and asio runs the handlers; what the peer sends is *)
(* up to the peer.                                                         *)
FairSpec == Spec /\ WF_vars(~ub /\ Session)

---------------------------------------------------------------------------
(* Safety. *)

(* The memcpy of a chunk stays inside the body of the node, and the length *)
(* handed from callback to callback is what the node still lacks, unless   *)
(* the length of the message is more than an int can hold.                 *)
ChunkFits ==
  read.kind = "body" /\ m_recv_node.total_len < INT_LIMIT =>
    /\ read.rest = m_recv_node.total_len - Len(m_recv_node.body)
    /\ Len(m_data) <= read.rest /\ Len(m_data) <= BUFFER_TOTAL_LEN

(* Only such a message, whose chunks never get shorter than the buffer,    *)
(* makes a RecvNode overflow.                                              *)
OnlyHugeOverflows == ub => m_recv_node.total_len >= INT_LIMIT

(* A message that LogicSystem holds does not change while the next one is  *)
(* read: the two share the RecvNode through a shared_ptr.                  *)
PostedFrozen ==
  [][\A k \in DOMAIN posted : nodes'[posted[k]] = nodes[posted[k]]]_vars

(* The messages posted are those the peer sent, whole, in order, none      *)
(* twice and none skipped, however the stream is cut into reads.           *)
Channel == INSTANCE FifoChannel
             WITH put <- [k \in DOMAIN sent |-> BodyOf(sent[k])],
                  got <- [k \in DOMAIN posted |-> nodes[posted[k]].body],
                  Item <- Seq(Nat)
FramesInOrder == Channel!Spec

---------------------------------------------------------------------------
(* Liveness, of FairSpec. *)

(* A message sent is posted unless the session ends; a short read or an    *)
(* empty body does not stall the reader.  Nothing is said behind a message *)
(* longer than an int can hold.                                            *)
Usual(k) == \A i \in 1..k : sent[i].len < INT_LIMIT
EveryFramePosted ==
  \A k \in 1..MaxFrames :
    (Len(sent) >= k /\ Usual(k)) ~> (Len(posted) >= k \/ eof \/ m_is_stop)

---------------------------------------------------------------------------
(* What an assertion claims and the code does not do. *)

(* Assert (bytes_transfered > 0, "read 0 lenght message!!!")               *)
(* (csession.cpp:189): a body read never completes with nothing.           *)
NoEmptyMessage == Complete("body") => Len(m_data) > 0
=============================================================================
