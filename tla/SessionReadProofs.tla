------------------------- MODULE SessionReadProofs -------------------------
(***************************************************************************)
(* Proofs about the reading half of CSession, for any lengths, buffers and *)
(* cuts of the stream: the messages posted are the messages sent.          *)
(***************************************************************************)
EXTENDS SessionRead, SequenceTheorems, TLAPS

(* The end of the k-th message in the stream. *)
End(k) == IF k = 0 THEN 0 ELSE sent[k].start + HEAD_TOTAL_LEN + sent[k].len

(* The peer's messages follow each other without gaps. *)
Contiguous ==
  \A k \in DOMAIN sent :
    /\ sent[k].start = End(k - 1)
    /\ \A i \in 1..(k - 1) : End(i) <= sent[k].start

(* The messages posted are the first ones sent, whole, each in its node.   *)
PostedWhole ==
  /\ Len(posted) <= Len(sent) /\ Len(posted) <= Len(nodes)
  /\ \A i \in DOMAIN posted : posted[i] = i /\ nodes[i].body = BodyOf(sent[i])

(* m_data continues the stream at p, and asio has consumed no more.        *)
ReadsFrom(p) ==
  /\ m_data = Bytes(p, Len(m_data)) /\ Len(m_data) <= read.want
  /\ consumed = p + Len(m_data) /\ consumed <= Written

(* Between messages: a head is read where the next message begins.         *)
AtHead ==
  read.kind = "head" =>
    /\ read = HeadRead /\ Len(nodes) = Len(posted)
    /\ ReadsFrom(End(Len(posted)))

(* Within a message: its node has its length and its first bytes.          *)
InBody ==
  read.kind = "body" =>
    LET k == Len(posted) + 1
        got == Len(nodes[k].body)
    IN /\ Len(nodes) = k /\ k <= Len(sent)
       /\ nodes[k].total_len = sent[k].len
       /\ nodes[k].body = Bytes(sent[k].start + HEAD_TOTAL_LEN, got)
       /\ ReadsFrom(sent[k].start + HEAD_TOTAL_LEN + got)
       /\ read.want = Minimum(read.rest, BUFFER_TOTAL_LEN)
       /\ sent[k].len < INT_LIMIT => read.rest = sent[k].len - got

(* The inductive invariant: Spec => []IInv. *)
IInv == TypeOK /\ Contiguous /\ PostedWhole /\ AtHead /\ InBody /\ OnlyHugeOverflows

---------------------------------------------------------------------------
(* Lemmas. *)

(* A stretch of the stream is a sequence of positions. *)
LEMMA BytesType ==
  ASSUME NEW p \in Nat, NEW n \in Nat
  PROVE  /\ Bytes(p, n) \in Seq(Nat) /\ Len(Bytes(p, n)) = n
         /\ \A i \in 1..n : Bytes(p, n)[i] = p + i
<1>1. Bytes(p, n) \in [1..n -> Nat]
  BY DEF Bytes
<1>2. \A i \in 1..n : Bytes(p, n)[i] = p + i
  BY DEF Bytes
<1>3. Bytes(p, n) \in Seq(Nat) /\ Len(Bytes(p, n)) = n
  BY <1>1
<1> QED
  BY <1>2, <1>3

(* Neighbouring stretches of the stream make one. *)
LEMMA BytesJoin ==
  ASSUME NEW p \in Nat, NEW n \in Nat, NEW m \in Nat
  PROVE  Bytes(p, n) \o Bytes(p + n, m) = Bytes(p, n + m)
<1>1. p + n \in Nat /\ n + m \in Nat
  OBVIOUS
<1>8. PICK b \in Seq(Nat), d \in Seq(Nat) :
        /\ b = Bytes(p, n) /\ d = Bytes(p, n + m) /\ Len(b) = n /\ Len(d) = n + m
        /\ \A i \in 1..n : b[i] = p + i
        /\ \A i \in 1..(n + m) : d[i] = p + i
  BY <1>1, BytesType
<1>9. PICK c \in Seq(Nat) :
        c = Bytes(p + n, m) /\ Len(c) = m /\ \A i \in 1..m : c[i] = p + n + i
  BY <1>1, BytesType
<1>4. PICK e : e = b \o c
  OBVIOUS
<1>5. /\ e \in Seq(Nat) /\ Len(e) = Len(b) + Len(c)
      /\ \A i \in 1..(Len(b) + Len(c)) : e[i] = IF i <= Len(b) THEN b[i] ELSE c[i - Len(b)]
  BY <1>4, ConcatProperties
<1>6. Len(e) = Len(d) /\ \A i \in 1..Len(e) : e[i] = d[i]
  <2>1. Len(e) = n + m
    BY <1>5, <1>8, <1>9
  <2> SUFFICES ASSUME NEW i \in 1..(n + m) PROVE e[i] = d[i]
    BY <1>8, <2>1
  <2>2. CASE i <= n
    BY <1>5, <1>8, <1>9, <2>2
  <2>3. CASE i > n
    <3>1. i - n \in 1..m
      BY <2>3
    <3>2. Len(b) = n /\ Len(c) = m /\ ~(i <= n)
      BY <1>8, <1>9, <2>3
    <3>3. e[i] = c[i - n]
      BY <1>5, <3>2
    <3> QED
      BY <1>8, <1>9, <3>1, <3>3
  <2> QED
    BY <2>2, <2>3
<1>7. e = d
  BY <1>5, <1>6, SeqEqual
<1> QED
  BY <1>8, <1>9, <1>4, <1>7

(* A message is written by its position and length.                        *)
LEMMA FrameType ==
  ASSUME NEW f \in Frame
  PROVE  f.start \in Nat /\ f.len \in Nat /\ f.len < UINT
<1>1. f.start \in Nat /\ f.len \in Lengths
  BY DEF Frame
<1>2. UINT \in Nat /\ Lengths \subseteq 0..(UINT - 1)
  BY LenAssumption DEF UINT
<1>3. f.len \in 0..(UINT - 1)
  BY <1>1, <1>2
<1> QED
  BY <1>1, <1>2, <1>3

(* The messages sent, and where they end. *)
LEMMA SentType ==
  ASSUME TypeOK, NEW k \in DOMAIN sent
  PROVE  /\ sent[k].start \in Nat /\ sent[k].len \in Nat /\ sent[k].len < UINT
         /\ End(k) \in Nat /\ End(k) = sent[k].start + HEAD_TOTAL_LEN + sent[k].len
         /\ sent[k].start < End(k)
<1>1. sent[k] \in Frame /\ k \in Nat /\ k # 0
  BY DEF TypeOK
<1>2. sent[k].start \in Nat /\ sent[k].len \in Nat /\ sent[k].len < UINT
  BY <1>1, FrameType
<1> QED
  BY <1>1, <1>2, LenAssumption DEF End

(* What has been written ends with the last message.                       *)
LEMMA WrittenIsEnd ==
  ASSUME TypeOK
  PROVE  Written = End(Len(sent)) /\ \A k \in 0..Len(sent) : End(k) \in Nat
<1>1. \A k \in 0..Len(sent) : End(k) \in Nat
  <2> SUFFICES ASSUME NEW k \in 0..Len(sent) PROVE End(k) \in Nat
    OBVIOUS
  <2>1. CASE k = 0
    BY <2>1 DEF End
  <2>2. CASE k # 0
    BY <2>2, SentType DEF TypeOK
  <2> QED
    BY <2>1, <2>2
<1>2. sent = <<>> <=> Len(sent) = 0
  BY DEF TypeOK
<1> QED
  BY <1>1, <1>2 DEF Written, End

(* The head of the message after the posted ones says that message's       *)
(* length.                                                                 *)
LEMMA HeadDecoded ==
  ASSUME IInv, Complete("head")
  PROVE  Len(posted) + 1 <= Len(sent) /\ DecodedLens = {sent[Len(posted) + 1].len}
<1>1. PICK p \in Nat : p = Len(posted) /\ p <= Len(sent)
  <2>1. Len(posted) \in Nat
    BY DEF IInv, TypeOK
  <2> QED
    BY <2>1 DEF IInv, PostedWhole
<1>2. /\ Len(m_data) = HEAD_TOTAL_LEN /\ m_data = Bytes(End(p), HEAD_TOTAL_LEN)
      /\ End(p) + HEAD_TOTAL_LEN <= Written
  BY <1>1 DEF IInv, AtHead, ReadsFrom, Complete, HeadRead
<1>3. /\ Written = End(Len(sent)) /\ End(p) \in Nat
  BY <1>1, WrittenIsEnd DEF IInv
<1>4. p + 1 \in DOMAIN sent
  BY <1>1, <1>2, <1>3, LenAssumption DEF IInv, TypeOK
<1>5. m_data[1] = End(p) + 1
  BY <1>2, LenAssumption DEF Bytes
<1>6. sent[p + 1].start = End(p)
  BY <1>1, <1>4 DEF IInv, Contiguous
<1>7. \A k \in DOMAIN sent : sent[k].start = End(p) => k = p + 1
  <2> SUFFICES ASSUME NEW k \in DOMAIN sent, sent[k].start = End(p) PROVE k = p + 1
    OBVIOUS
  <2>1. CASE k < p + 1
    <3>1. k \in 1..((p + 1) - 1) /\ k \in Nat /\ k # 0
      BY <1>1, <2>1 DEF IInv, TypeOK
    <3>2. End(k) <= sent[p + 1].start
      BY <1>4, <3>1 DEF IInv, Contiguous
    <3> QED
      BY <1>6, <3>2, SentType DEF IInv
  <2>2. CASE k > p + 1
    <3>1. p + 1 \in 1..(k - 1)
      BY <1>1, <2>2 DEF IInv, TypeOK
    <3>2. End(p + 1) <= sent[k].start
      BY <3>1 DEF IInv, Contiguous
    <3> QED
      BY <1>1, <1>4, <1>6, <3>2, SentType DEF IInv
  <2> QED
    BY <1>1, <2>1, <2>2 DEF IInv, TypeOK
<1>8. {k \in DOMAIN sent : sent[k].start + 1 = m_data[1]} = {p + 1}
  <2>1. \A k \in DOMAIN sent : sent[k].start \in Nat
    BY SentType DEF IInv
  <2> QED
    BY <1>3, <1>4, <1>5, <1>6, <1>7, <2>1
<1>9. DecodedLens = {sent[k].len : k \in {p + 1}}
  BY <1>8 DEF DecodedLens
<1> QED
  BY <1>1, <1>4, <1>9 DEF IInv, TypeOK

---------------------------------------------------------------------------
(* Every step preserves the invariant. *)

(* One read_some continues the stretch in m_data. *)
LEMMA ReadsOn ==
  ASSUME TypeOK, Receive, NEW p \in Nat, ReadsFrom(p)
  PROVE  ReadsFrom(p)' /\ m_data' \in Seq(Nat) /\ consumed' \in Nat
<1>1. PICK l \in Nat, w \in Nat, v \in Nat, q \in Nat :
        l = Len(m_data) /\ w = read.want /\ v = Written /\ q = consumed
  <2>1. Written \in Nat
    BY WrittenIsEnd DEF TypeOK
  <2> QED
    BY <2>1 DEF TypeOK
<1>2. PICK n \in 1..Minimum(w - l, v - q) :
        /\ m_data' = m_data \o Bytes(q, n) /\ consumed' = q + n
        /\ UNCHANGED <<sent, read>>
  BY <1>1 DEF Receive
<1>3. n \in Nat /\ l + n <= w /\ q + n <= v
  BY DEF Minimum
<1>4. m_data = Bytes(p, l) /\ q = p + l
  BY <1>1 DEF ReadsFrom
<1>5. m_data' = Bytes(p, l + n) /\ consumed' = p + (l + n)
  <2>1. Bytes(p, l) \o Bytes(p + l, n) = Bytes(p, l + n)
    BY <1>3, BytesJoin
  <2>2. q + n = p + (l + n)
    BY <1>3, <1>4
  <2> QED
    BY <1>2, <1>4, <2>1, <2>2
<1>6. Bytes(p, l + n) \in Seq(Nat) /\ Len(Bytes(p, l + n)) = l + n
  <2>1. l + n \in Nat
    BY <1>3
  <2> QED
    BY <2>1, BytesType
<1>7. Written' = v /\ read'.want = w
  BY <1>1, <1>2 DEF Written
<1>8. /\ m_data' \in Seq(Nat) /\ Len(m_data') = l + n /\ consumed' \in Nat
      /\ consumed' <= v /\ l + n <= w
  BY <1>2, <1>3, <1>5, <1>6
<1> QED
  BY <1>5, <1>7, <1>8 DEF ReadsFrom

(* Receiving keeps the invariant. *)
LEMMA ReceiveStep == IInv /\ Receive => IInv'
<1> SUFFICES ASSUME IInv, Receive PROVE IInv'
  OBVIOUS
<1>1. UNCHANGED <<sent, eof, read, nodes, posted, m_is_stop, ub>>
  BY DEF Receive
<1>2. PICK p \in Nat : /\ read.kind = "head" => p = End(Len(posted))
                       /\ read.kind = "body" =>
                            p = sent[Len(posted) + 1].start + HEAD_TOTAL_LEN
                                  + Len(nodes[Len(posted) + 1].body)
                       /\ ReadsFrom(p)
  <2>1. CASE read.kind = "head"
    <3>1. End(Len(posted)) \in Nat
      BY WrittenIsEnd DEF IInv, TypeOK, PostedWhole
    <3> QED
      BY <2>1, <3>1 DEF IInv, AtHead
  <2>2. CASE read.kind = "body"
    <3>1. Len(posted) + 1 \in DOMAIN sent /\ Len(posted) + 1 \in DOMAIN nodes
      BY <2>2 DEF IInv, TypeOK, InBody
    <3>2. Len(nodes[Len(posted) + 1].body) \in Nat
      BY <3>1 DEF IInv, TypeOK, RecvNode
    <3>3. sent[Len(posted) + 1].start \in Nat
      BY <3>1, SentType DEF IInv
    <3> QED
      BY <2>2, <3>2, <3>3, LenAssumption DEF IInv, InBody
  <2>3. read.kind \in {"head", "body"}
    BY DEF Receive, IInv, TypeOK
  <2> QED
    BY <2>1, <2>2, <2>3
<1>3. ReadsFrom(p)' /\ m_data' \in Seq(Nat) /\ consumed' \in Nat
  BY <1>2, ReadsOn DEF IInv
<1>4. TypeOK' /\ Contiguous' /\ PostedWhole' /\ OnlyHugeOverflows'
  BY <1>1, <1>3 DEF IInv, TypeOK, Contiguous, End, PostedWhole, OnlyHugeOverflows,
                    m_recv_node, BodyOf
<1>5. \A k : End(k)' = End(k)
  BY <1>1 DEF End
<1>6. AtHead'
  <2> SUFFICES ASSUME read'.kind = "head"
               PROVE  /\ read' = HeadRead /\ Len(nodes') = Len(posted')
                      /\ ReadsFrom(End(Len(posted)))'
    BY DEF AtHead
  <2>1. read.kind = "head" /\ p = End(Len(posted))
    BY <1>1, <1>2
  <2>2. p = End(Len(posted))'
    BY <1>1, <1>5, <2>1
  <2> QED
    BY <1>1, <1>3, <2>1, <2>2 DEF IInv, AtHead
<1>7. InBody'
  BY <1>1, <1>2, <1>3 DEF IInv, InBody
<1> QED
  BY <1>4, <1>6, <1>7 DEF IInv

(* Sending keeps the invariant: the new message follows the last one.      *)
LEMMA SendStep == IInv /\ ClientSend => IInv'
<1> SUFFICES ASSUME IInv, ClientSend PROVE IInv'
  OBVIOUS
<1>1. PICK f \in Frame : sent' = Append(sent, f) /\ f.start = Written
  <2>1. PICK n \in Lengths : sent' = Append(sent, [start |-> Written, len |-> n])
    BY DEF ClientSend
  <2>2. Written \in Nat
    BY WrittenIsEnd DEF IInv, TypeOK
  <2>3. [start |-> Written, len |-> n] \in Frame
    BY <2>2 DEF Frame
  <2> QED
    BY <2>1, <2>3
<1>2. UNCHANGED <<eof, consumed, read, m_data, nodes, posted, m_is_stop, ub>>
  BY DEF ClientSend
<1>3. PICK l \in Nat : l = Len(sent)
  BY DEF IInv, TypeOK
<1>4. /\ sent' \in Seq(Frame) /\ Len(sent') = l + 1 /\ sent'[l + 1] = f
      /\ \A k \in 1..l : sent'[k] = sent[k]
      /\ DOMAIN sent = 1..l /\ DOMAIN sent' = 1..(l + 1)
  BY <1>1, <1>3 DEF IInv, TypeOK
<1>5. TypeOK'
  BY <1>2, <1>4 DEF IInv, TypeOK
<1>6. \A k \in 0..l : End(k)' = End(k)
  BY <1>4 DEF End
<1>7. Written = End(l) /\ f.start = End(l) /\ Written' = End(l + 1)' /\ Written <= Written'
      /\ Written \in Nat /\ Written' \in Int
  <2>1. Written = End(l)
    BY <1>3, WrittenIsEnd DEF IInv
  <2>2. Written' = End(l + 1)'
    BY <1>4 DEF Written, End
  <2>3. f.start \in Nat /\ f.len \in Nat
    BY FrameType
  <2>4. End(l + 1)' = f.start + HEAD_TOTAL_LEN + f.len
    BY <1>4 DEF End
  <2> QED
    BY <1>1, <2>1, <2>2, <2>3, <2>4, LenAssumption
<1>8. Contiguous'
  <2> SUFFICES ASSUME NEW k \in 1..(l + 1)
               PROVE  /\ sent'[k].start = End(k - 1)'
                      /\ \A i \in 1..(k - 1) : End(i)' <= sent'[k].start
    BY <1>4 DEF Contiguous
  <2>1. CASE k \in 1..l
    BY <1>4, <1>6, <2>1 DEF IInv, Contiguous
  <2>2. CASE k = l + 1
    <3>1. \A i \in 1..l : End(i) <= End(l)
      <4> SUFFICES ASSUME NEW i \in 1..l PROVE End(i) <= End(l)
        OBVIOUS
      <4>1. i \in DOMAIN sent /\ l \in DOMAIN sent
        BY <1>4
      <4>2. End(i) \in Nat /\ End(l) \in Nat /\ sent[l].start \in Nat /\ sent[l].start < End(l)
        BY <4>1, SentType DEF IInv
      <4>3. i # l => End(i) <= sent[l].start
        BY <4>1 DEF IInv, Contiguous
      <4> QED
        BY <4>2, <4>3
    <3> QED
      BY <1>4, <1>6, <1>7, <2>2, <3>1
  <2> QED
    BY <2>1, <2>2
<1>9. PICK p \in Nat : p = Len(posted) /\ p <= l /\ p <= Len(nodes)
  <2>1. Len(posted) \in Nat
    BY DEF IInv, TypeOK
  <2> QED
    BY <1>3, <2>1 DEF IInv, PostedWhole
<1>10. PostedWhole'
  <2>1. \A i \in 1..p : BodyOf(sent'[i]) = BodyOf(sent[i])
    BY <1>4, <1>9
  <2>2. DOMAIN posted = 1..p
    BY <1>9 DEF IInv, TypeOK
  <2> QED
    BY <1>2, <1>4, <1>9, <2>1, <2>2 DEF IInv, PostedWhole
<1>11. \A q : ReadsFrom(q) => ReadsFrom(q)'
  BY <1>2, <1>7 DEF ReadsFrom, IInv, TypeOK
<1>12. AtHead'
  <2> SUFFICES ASSUME read.kind = "head"
               PROVE  /\ read' = HeadRead /\ Len(nodes') = Len(posted')
                      /\ ReadsFrom(End(Len(posted)))'
    BY <1>2 DEF AtHead
  <2>1. PICK q : q = End(p)
    OBVIOUS
  <2>2. q = End(Len(posted))'
    BY <1>2, <1>6, <1>9, <2>1
  <2>3. ReadsFrom(q)'
    BY <1>9, <1>11, <2>1 DEF IInv, AtHead
  <2> QED
    BY <1>2, <2>2, <2>3 DEF IInv, AtHead
<1>13. InBody'
  <2> SUFFICES ASSUME read.kind = "body" PROVE InBody'
    BY <1>2 DEF InBody
  <2>1. p + 1 \in 1..l
    BY <1>3, <1>9 DEF IInv, InBody
  <2>2. sent'[p + 1] = sent[p + 1]
    BY <1>4, <2>1
  <2> QED
    BY <1>2, <1>4, <1>9, <1>11, <2>1, <2>2 DEF IInv, InBody
<1>14. OnlyHugeOverflows'
  BY <1>2 DEF IInv, OnlyHugeOverflows, m_recv_node
<1> QED
  BY <1>5, <1>8, <1>10, <1>12, <1>13, <1>14 DEF IInv

(* No bytes yet. *)
LEMMA BytesNone == ASSUME NEW p \in Nat PROVE Bytes(p, 0) = <<>>
<1>1. Bytes(p, 0) \in Seq(Nat) /\ Len(Bytes(p, 0)) = 0
  BY BytesType
<1> QED
  BY <1>1, EmptySeq

(* What read_head makes of the 4 bytes of a length.                        *)
LEMMA Widths ==
  ASSUME NEW n \in Nat, n < UINT
  PROVE  /\ Unsigned(Int32(n)) = n /\ Size(Int32(n)) \in Nat
         /\ n < INT_LIMIT => Size(Int32(n)) = n
  BY LenAssumption DEF Unsigned, Int32, Size, UINT

(* A read of a body asks for no more than is left or the buffer takes.     *)
LEMMA BodyReadType ==
  ASSUME NEW rest \in Nat
  PROVE  /\ BodyRead(rest) \in [kind : {"head", "body", "none"}, want : Nat, rest : Nat]
         /\ BodyRead(rest).kind = "body" /\ BodyRead(rest).rest = rest
         /\ BodyRead(rest).want = Minimum(rest, BUFFER_TOTAL_LEN)
  BY LenAssumption DEF BodyRead, Minimum

(* A head makes a node and begins a body. *)
LEMMA HeadStep == IInv /\ HeadHandler => IInv'
<1> SUFFICES ASSUME IInv, HeadHandler PROVE IInv'
  OBVIOUS
<1>1. PICK p \in Nat : p = Len(posted) /\ p + 1 \in DOMAIN sent
  <2>1. Len(posted) + 1 <= Len(sent) /\ Len(posted) \in Nat /\ Len(sent) \in Nat
    BY HeadDecoded DEF HeadHandler, IInv, TypeOK
  <2> QED
    BY <2>1 DEF IInv, TypeOK
<1>2. PICK len \in Nat, start \in Nat :
        len = sent[p + 1].len /\ start = sent[p + 1].start /\ len < UINT
  BY <1>1, SentType DEF IInv
<1>3. PICK node : node = [total_len |-> len, body |-> <<>>]
  OBVIOUS
<1>4. PICK rest \in Nat :
        /\ nodes' = Append(nodes, node) /\ ub' = (len + 1 = UINT)
        /\ read' = BodyRead(rest) /\ m_data' = <<>>
        /\ len < INT_LIMIT => rest = len
  <2>1. DecodedLens = {len} /\ Complete("head")
    BY <1>1, <1>2, HeadDecoded DEF HeadHandler
  <2>2. NewNode(Unsigned(Int32(len))) /\ StartRead(BodyRead(Size(Int32(len))))
    BY <2>1 DEF HeadHandler
  <2> QED
    BY <1>2, <1>3, <2>2, Widths DEF NewNode, StartRead
<1>5. /\ UNCHANGED <<sent, eof, consumed, posted, m_is_stop>>
      /\ read.kind = "head" /\ Len(m_data) = HEAD_TOTAL_LEN
  <2>1. UNCHANGED <<sent, eof, consumed, posted, m_is_stop>> /\ Complete("head")
    BY DEF HeadHandler
  <2> QED
    BY <2>1 DEF Complete, IInv, AtHead, HeadRead
<1>6. Len(nodes) = p /\ consumed = start + HEAD_TOTAL_LEN /\ consumed <= Written
  <2>1. Len(nodes) = p /\ consumed = End(p) + HEAD_TOTAL_LEN /\ consumed <= Written
    BY <1>1, <1>5 DEF IInv, AtHead, ReadsFrom
  <2>2. start = End(p)
    <3>1. sent[p + 1].start = End((p + 1) - 1) /\ (p + 1) - 1 = p
      BY <1>1 DEF IInv, Contiguous
    <3> QED
      BY <1>2, <3>1
  <2> QED
    BY <2>1, <2>2
<1>7. /\ nodes' \in Seq(RecvNode) /\ Len(nodes') = p + 1 /\ nodes'[p + 1] = node
      /\ \A i \in 1..p : nodes'[i] = nodes[i]
  <2>1. node \in RecvNode
    BY <1>3 DEF RecvNode
  <2>2. nodes \in Seq(RecvNode) /\ Len(nodes) = p
    BY <1>6 DEF IInv, TypeOK
  <2>3. nodes' = Append(nodes, node)
    BY <1>4
  <2>4. nodes' \in Seq(RecvNode) /\ Len(nodes') = p + 1
    BY <2>1, <2>2, <2>3
  <2>5. nodes'[p + 1] = node /\ \A i \in 1..p : nodes'[i] = nodes[i]
    BY <2>1, <2>2, <2>3
  <2> QED
    BY <2>4, <2>5
<1>8. TypeOK'
  <2>1. ub' \in BOOLEAN
    BY <1>4, Zenon
  <2>2. read' \in [kind : {"head", "body", "none"}, want : Nat, rest : Nat]
    BY <1>4, BodyReadType
  <2>3. m_data' \in Seq(Nat)
    BY <1>4
  <2> QED
    BY <1>5, <1>7, <2>1, <2>2, <2>3 DEF IInv, TypeOK
<1>9. Contiguous'
  BY <1>5 DEF IInv, Contiguous, End
<1>10. PostedWhole'
  <2>1. DOMAIN posted = 1..p
    BY <1>1 DEF IInv, TypeOK
  <2> QED
    BY <1>1, <1>5, <1>7, <2>1 DEF IInv, TypeOK, PostedWhole, BodyOf
<1>11. read'.kind = "body" /\ read'.want = Minimum(rest, BUFFER_TOTAL_LEN) /\ read'.rest = rest
  BY <1>4, BodyReadType
<1>12. AtHead'
  BY <1>11 DEF AtHead
<1>13. InBody'
  <2>1. node.total_len = len /\ node.body = <<>> /\ Len(node.body) = 0
    BY <1>3
  <2>2. PICK q \in Nat : q = start + HEAD_TOTAL_LEN /\ q + 0 = q
    BY LenAssumption
  <2>3. ReadsFrom(q)'
    <3>1. Minimum(rest, BUFFER_TOTAL_LEN) >= 0
      BY LenAssumption DEF Minimum
    <3>2. Written' = Written
      BY <1>5 DEF Written
    <3> QED
      BY <1>4, <1>5, <1>6, <1>11, <2>2, <3>1, <3>2, BytesNone DEF ReadsFrom
  <2>4. node.body = Bytes(q, 0)
    BY <2>1, BytesNone
  <2>5. p + 1 <= Len(sent)
    BY <1>1 DEF IInv, TypeOK
  <2> QED
    BY <1>1, <1>2, <1>4, <1>5, <1>7, <1>11, <2>1, <2>2, <2>3, <2>4, <2>5 DEF InBody
<1>14. OnlyHugeOverflows'
  <2>1. m_recv_node' = node /\ node.total_len = len
    BY <1>3, <1>7 DEF m_recv_node
  <2>2. len + 1 = UINT => len >= INT_LIMIT
    BY <1>2, LenAssumption DEF UINT
  <2> QED
    BY <1>4, <2>1, <2>2 DEF OnlyHugeOverflows
<1> QED
  BY <1>8, <1>9, <1>10, <1>12, <1>13, <1>14 DEF IInv

(* A chunk continues the body, which is posted when it is whole.           *)
LEMMA BodyStep == IInv /\ BodyHandler => IInv'
<1> SUFFICES ASSUME IInv, BodyHandler PROVE IInv'
  OBVIOUS
<1>1. /\ UNCHANGED <<sent, eof, consumed, m_is_stop>>
      /\ read.kind = "body" /\ Len(m_data) = read.want
  BY DEF BodyHandler, Complete
<1>2. PICK p \in Nat : p = Len(posted) /\ p + 1 \in DOMAIN sent /\ Len(nodes) = p + 1
  BY <1>1 DEF IInv, TypeOK, InBody
<1>3. PICK len \in Nat, start \in Nat :
        /\ len = sent[p + 1].len /\ start = sent[p + 1].start /\ len < UINT
        /\ End(p + 1) = start + HEAD_TOTAL_LEN + len
  BY <1>2, SentType DEF IInv
<1>4. PICK base \in Nat : base = start + HEAD_TOTAL_LEN
  BY LenAssumption
<1>5. PICK got \in Nat, d \in Nat, rest \in Nat :
        got = Len(nodes[p + 1].body) /\ d = Len(m_data) /\ rest = read.rest
  <2>1. nodes[p + 1] \in RecvNode
    BY <1>2 DEF IInv, TypeOK
  <2>2. nodes[p + 1].body \in Seq(Nat)
    BY <2>1 DEF RecvNode
  <2> QED
    BY <2>2 DEF IInv, TypeOK
<1>6. /\ nodes[p + 1].total_len = len /\ nodes[p + 1].body = Bytes(base, got)
      /\ ReadsFrom(base + got) /\ d = Minimum(rest, BUFFER_TOTAL_LEN)
      /\ len < INT_LIMIT => rest = len - got
  BY <1>1, <1>2, <1>3, <1>4, <1>5 DEF IInv, InBody
<1>7. /\ d <= rest /\ consumed = base + got + d /\ consumed <= Written
      /\ m_data = Bytes(base + got, d)
  <2>1. d <= rest
    BY <1>6, LenAssumption DEF Minimum
  <2>2. ReadsFrom(base + got)
    BY <1>6
  <2> QED
    BY <1>5, <2>1, <2>2 DEF ReadsFrom
<1>8. PICK node : node = [m_recv_node EXCEPT !.body = @ \o m_data]
  OBVIOUS
<1>9. /\ node \in RecvNode /\ node.total_len = len /\ node.body = Bytes(base, got + d)
      /\ Len(node.body) = got + d
  <2>1. PICK old \in RecvNode : old = nodes[p + 1] /\ old = m_recv_node
    BY <1>2 DEF IInv, TypeOK, m_recv_node
  <2>2. old.body \o m_data = Bytes(base, got + d)
    <3>1. Bytes(base, got) \o Bytes(base + got, d) = Bytes(base, got + d)
      BY BytesJoin
    <3> QED
      BY <1>6, <1>7, <2>1, <3>1
  <2>3. Bytes(base, got + d) \in Seq(Nat) /\ Len(Bytes(base, got + d)) = got + d
    BY BytesType
  <2>4. PICK bytes \in Seq(Nat) : bytes = Bytes(base, got + d)
    BY <2>3
  <2>5. node = [old EXCEPT !.body = bytes]
    BY <1>8, <2>1, <2>2, <2>4
  <2>6. node \in RecvNode /\ node.total_len = old.total_len /\ node.body = bytes
    BY <2>5 DEF RecvNode
  <2> QED
    BY <1>6, <2>1, <2>3, <2>4, <2>6
<1>10. /\ nodes' = [nodes EXCEPT ![p + 1] = node] /\ ub' = (got + d > len + 1)
       /\ \/ /\ len = got + d /\ posted' = Append(posted, p + 1)
             /\ read' = HeadRead /\ m_data' = <<>>
          \/ /\ len # got + d /\ UNCHANGED posted
             /\ read' = BodyRead(rest - d) /\ m_data' = <<>>
  BY <1>2, <1>5, <1>8, <1>9 DEF BodyHandler, StartRead, is_fulled
<1>11. /\ nodes' \in Seq(RecvNode) /\ Len(nodes') = p + 1 /\ nodes'[p + 1] = node
       /\ \A i \in 1..p : nodes'[i] = nodes[i]
  <2>1. nodes \in Seq(RecvNode) /\ nodes' = [nodes EXCEPT ![p + 1] = node]
    BY <1>10 DEF IInv, TypeOK
  <2> QED
    BY <1>2, <1>9, <2>1
<1>12. Contiguous' /\ Written' = Written /\ \A k : End(k)' = End(k)
  BY <1>1 DEF IInv, Contiguous, End, Written
<1>13. ub' \in BOOLEAN /\ (ub' => len >= INT_LIMIT)
  <2>1. CASE got + d > len + 1
    <3>1. ub' = TRUE
      BY <1>10, <2>1
    <3>2. len >= INT_LIMIT
      BY <1>6, <1>7, <2>1, LenAssumption
    <3> QED
      BY <3>1, <3>2
  <2>2. CASE ~(got + d > len + 1)
    <3>1. ub' = (got + d > len + 1)
      BY <1>10
    <3>2. (got + d > len + 1) = FALSE
      BY <2>2
    <3> QED
      BY <3>1, <3>2
  <2> QED
    BY <2>1, <2>2
<1>14. OnlyHugeOverflows'
  BY <1>9, <1>11, <1>13 DEF OnlyHugeOverflows, m_recv_node
<1>15. DOMAIN posted = 1..p /\ posted \in Seq(Nat) /\ p + 1 <= Len(sent)
  BY <1>2 DEF IInv, TypeOK
<1>16. CASE len = got + d /\ posted' = Append(posted, p + 1) /\ read' = HeadRead /\ m_data' = <<>>
  <2>1. /\ posted' \in Seq(Nat) /\ Len(posted') = p + 1 /\ DOMAIN posted' = 1..(p + 1)
        /\ posted'[p + 1] = p + 1 /\ \A i \in 1..p : posted'[i] = posted[i]
    BY <1>2, <1>15, <1>16
  <2>2. TypeOK'
    <3>1. read' \in [kind : {"head", "body", "none"}, want : Nat, rest : Nat]
      BY <1>16, LenAssumption DEF HeadRead
    <3>2. m_data' \in Seq(Nat)
      BY <1>16
    <3> QED
      BY <1>1, <1>11, <1>13, <2>1, <3>1, <3>2 DEF IInv, TypeOK
  <2>3. PostedWhole'
    <3>1. node.body = BodyOf(sent[p + 1])
      BY <1>3, <1>4, <1>9, <1>16 DEF BodyOf
    <3>2. \A i \in 1..p : posted[i] = i /\ nodes[i].body = BodyOf(sent[i])
      BY <1>15 DEF IInv, PostedWhole
    <3>3. \A i \in 1..(p + 1) : posted'[i] = i /\ nodes'[i].body = BodyOf(sent[i])
      BY <1>11, <2>1, <3>1, <3>2
    <3>4. \A i : BodyOf(sent[i])' = BodyOf(sent[i])
      BY <1>1 DEF BodyOf
    <3> QED
      BY <1>1, <1>11, <1>15, <2>1, <3>3, <3>4 DEF PostedWhole
  <2>4. AtHead'
    <3>1. PICK q \in Nat : q = End(p + 1) /\ q = consumed
      <4>1. base + len = base + got + d /\ base + len \in Nat
        BY <1>16
      <4> QED
        BY <1>3, <1>4, <1>7, <4>1
    <3>2. ReadsFrom(q)'
      <4>1. Bytes(q, 0) = <<>> /\ q + 0 = q
        BY BytesNone
      <4>2. read'.want = HEAD_TOTAL_LEN
        BY <1>16 DEF HeadRead
      <4> QED
        BY <1>1, <1>7, <1>12, <1>16, <3>1, <4>1, <4>2, LenAssumption DEF ReadsFrom
    <3>3. q = End(Len(posted))'
      BY <1>12, <2>1, <3>1
    <3> QED
      BY <1>11, <1>16, <2>1, <3>2, <3>3 DEF AtHead
  <2>5. InBody'
    BY <1>16 DEF InBody, HeadRead
  <2> QED
    BY <1>12, <1>14, <2>2, <2>3, <2>4, <2>5 DEF IInv
<1>17. CASE len # got + d /\ UNCHANGED posted /\ read' = BodyRead(rest - d) /\ m_data' = <<>>
  <2>1. PICK left \in Nat : left = rest - d
    BY <1>7
  <2>2. /\ read' \in [kind : {"head", "body", "none"}, want : Nat, rest : Nat]
        /\ read'.kind = "body" /\ read'.rest = left
        /\ read'.want = Minimum(left, BUFFER_TOTAL_LEN)
    BY <1>17, <2>1, BodyReadType
  <2>3. TypeOK'
    <3>1. m_data' \in Seq(Nat)
      BY <1>17
    <3> QED
      BY <1>1, <1>11, <1>13, <1>15, <1>17, <2>2, <3>1 DEF IInv, TypeOK
  <2>4. PostedWhole'
    <3>1. \A i \in 1..p : posted[i] = i /\ nodes[i].body = BodyOf(sent[i])
      BY <1>15 DEF IInv, PostedWhole
    <3> QED
      BY <1>1, <1>2, <1>11, <1>15, <1>17, <3>1 DEF PostedWhole, BodyOf
  <2>5. AtHead'
    BY <2>2 DEF AtHead
  <2>6. InBody'
    <3>1. PICK q \in Nat : q = consumed /\ q = base + (got + d)
      BY <1>7
    <3>2. ReadsFrom(q)'
      <4>1. Bytes(q, 0) = <<>> /\ q + 0 = q
        BY BytesNone
      <4>2. Minimum(left, BUFFER_TOTAL_LEN) >= 0
        BY LenAssumption DEF Minimum
      <4> QED
        BY <1>1, <1>7, <1>12, <1>17, <2>2, <3>1, <4>1, <4>2 DEF ReadsFrom
    <3>3. len < INT_LIMIT => left = len - (got + d)
      BY <1>6, <2>1
    <3>4. q = start + HEAD_TOTAL_LEN + (got + d)
      BY <1>4, <3>1
    <3> QED
      BY <1>1, <1>2, <1>3, <1>4, <1>9, <1>11, <1>15, <1>17, <2>2, <3>2, <3>3, <3>4 DEF InBody
  <2> QED
    BY <1>12, <1>14, <2>3, <2>4, <2>5, <2>6 DEF IInv
<1> QED
  BY <1>10, <1>16, <1>17

(* The end of a session, or nothing, leaves every message where it is.     *)
LEMMA EndStep ==
  IInv /\ (ClientClose \/ CloseByWriter \/ ReadError \/ UNCHANGED vars) => IInv'
<1> SUFFICES ASSUME IInv, ClientClose \/ CloseByWriter \/ ReadError \/ UNCHANGED vars
             PROVE  IInv'
  OBVIOUS
<1>1. UNCHANGED <<sent, consumed, nodes, posted, ub>>
  BY DEF ClientClose, CloseByWriter, ReadError, vars
<1>2. /\ eof' \in BOOLEAN /\ m_is_stop' \in BOOLEAN
      /\ \/ UNCHANGED <<read, m_data>>
         \/ read' = NoRead /\ m_data' = <<>>
  BY DEF ClientClose, CloseByWriter, ReadError, StartRead, vars, IInv, TypeOK
<1>3. /\ Contiguous' /\ PostedWhole' /\ OnlyHugeOverflows'
      /\ Written' = Written /\ \A k : End(k)' = End(k)
  BY <1>1 DEF IInv, Contiguous, PostedWhole, OnlyHugeOverflows, m_recv_node, End, Written,
              BodyOf
<1>4. TypeOK'
  <2>1. read' \in [kind : {"head", "body", "none"}, want : Nat, rest : Nat]
    BY <1>2 DEF IInv, TypeOK, NoRead
  <2>2. m_data \in Seq(Nat) /\ <<>> \in Seq(Nat)
    BY DEF IInv, TypeOK
  <2>3. m_data' \in Seq(Nat)
    BY <1>2, <2>2
  <2> QED
    BY <1>1, <1>2, <2>1, <2>3 DEF IInv, TypeOK
<1>5. CASE UNCHANGED <<read, m_data>>
  <2>1. AtHead'
    BY <1>1, <1>3, <1>5 DEF IInv, AtHead, ReadsFrom
  <2>2. InBody'
    BY <1>1, <1>3, <1>5 DEF IInv, InBody, ReadsFrom
  <2> QED
    BY <1>3, <1>4, <2>1, <2>2 DEF IInv
<1>6. CASE read' = NoRead /\ m_data' = <<>>
  <2>1. AtHead' /\ InBody'
    BY <1>6 DEF AtHead, InBody, NoRead
  <2> QED
    BY <1>3, <1>4, <2>1 DEF IInv
<1> QED
  BY <1>2, <1>5, <1>6

(* CSession::start establishes the inductive invariant. *)
LEMMA InitIInv == Init => IInv
<1> SUFFICES ASSUME Init PROVE IInv
  OBVIOUS
<1>1. Bytes(0, 0) = <<>>
  BY BytesNone
<1>2. /\ sent = <<>> /\ posted = <<>> /\ nodes = <<>> /\ m_data = <<>> /\ consumed = 0
      /\ Len(m_data) = 0 /\ Len(posted) = 0 /\ Len(nodes) = 0 /\ Len(sent) = 0
      /\ read = HeadRead /\ ub = FALSE
  BY DEF Init
<1>3. TypeOK
  <2>1. read \in [kind : {"head", "body", "none"}, want : Nat, rest : Nat]
    BY LenAssumption DEF Init, HeadRead
  <2>2. /\ sent \in Seq(Frame) /\ nodes \in Seq(RecvNode)
        /\ m_data \in Seq(Nat) /\ posted \in Seq(Nat)
    BY <1>2
  <2> QED
    BY <2>1, <2>2 DEF Init, TypeOK
<1>4. AtHead
  BY <1>1, <1>2, LenAssumption DEF AtHead, ReadsFrom, HeadRead, End, Written
<1>5. InBody
  BY <1>2 DEF InBody, HeadRead
<1>6. Contiguous /\ PostedWhole /\ OnlyHugeOverflows
  BY <1>2 DEF Contiguous, PostedWhole, OnlyHugeOverflows
<1> QED
  BY <1>3, <1>4, <1>5, <1>6 DEF IInv

(* Every step keeps the inductive invariant. *)
LEMMA StepIInv == IInv /\ [Next]_vars => IInv'
<1> SUFFICES ASSUME IInv, [Next]_vars PROVE IInv'
  OBVIOUS
<1>1. CASE ClientSend
  BY <1>1, SendStep
<1>2. CASE Receive
  BY <1>2, ReceiveStep
<1>3. CASE HeadHandler
  BY <1>3, HeadStep
<1>4. CASE BodyHandler
  BY <1>4, BodyStep
<1>5. CASE ClientClose \/ CloseByWriter \/ ReadError \/ UNCHANGED vars
  BY <1>5, EndStep
<1> QED
  BY <1>1, <1>2, <1>3, <1>4, <1>5 DEF Next, Session

(* The inductive invariant holds in every state of the reading half. *)
THEOREM Invariant == Spec => []IInv
  BY InitIInv, StepIInv, PTL DEF Spec

(* Type correctness of the reading half. *)
THEOREM TypeCorrect == Spec => []TypeOK
<1>1. IInv => TypeOK
  BY DEF IInv
<1> QED
  BY <1>1, Invariant, PTL

(* Undefined behaviour needs a message longer than an int can hold. *)
THEOREM OverflowOnlyHuge == Spec => []OnlyHugeOverflows
<1>1. IInv => OnlyHugeOverflows
  BY DEF IInv
<1> QED
  BY <1>1, Invariant, PTL

(* The memcpy of every chunk of a message shorter than that stays inside   *)
(* the node, however the stream is cut.                                    *)
THEOREM ChunksFit == Spec => []ChunkFits
<1>1. IInv => ChunkFits
  <2> SUFFICES ASSUME IInv, read.kind = "body", m_recv_node.total_len < INT_LIMIT
               PROVE  /\ read.rest = m_recv_node.total_len - Len(m_recv_node.body)
                      /\ Len(m_data) <= read.rest /\ Len(m_data) <= BUFFER_TOTAL_LEN
    BY DEF ChunkFits
  <2>1. PICK k : k = Len(posted) + 1 /\ k = Len(nodes)
    BY DEF IInv, InBody
  <2>2. /\ nodes[k] = m_recv_node /\ nodes[k].total_len = sent[k].len
        /\ Len(m_data) <= read.want /\ read.want = Minimum(read.rest, BUFFER_TOTAL_LEN)
        /\ sent[k].len < INT_LIMIT => read.rest = sent[k].len - Len(nodes[k].body)
    BY <2>1 DEF IInv, InBody, ReadsFrom, m_recv_node
  <2>3. read.rest \in Nat /\ read.want \in Nat /\ Len(m_data) \in Nat
    BY DEF IInv, TypeOK
  <2>4. Len(m_data) <= read.rest /\ Len(m_data) <= BUFFER_TOTAL_LEN
    BY <2>2, <2>3, LenAssumption DEF Minimum
  <2> QED
    BY <2>2, <2>4
<1> QED
  BY <1>1, Invariant, PTL
(* A message given to LogicSystem is not written again: only the node of   *)
(* the message being read is.                                              *)
THEOREM Frozen == Spec => PostedFrozen
<1>1. IInv /\ [Next]_vars => [\A k \in DOMAIN posted : nodes'[posted[k]] = nodes[posted[k]]]_vars
  <2> SUFFICES ASSUME IInv, Next, NEW k \in DOMAIN posted
               PROVE  nodes'[posted[k]] = nodes[posted[k]]
    OBVIOUS
  <2>1. PICK p \in Nat : p = Len(posted) /\ p <= Len(nodes) /\ k \in 1..p /\ posted[k] = k
    <3>1. posted \in Seq(Nat)
      BY DEF IInv, TypeOK
    <3>2. Len(posted) \in Nat /\ DOMAIN posted = 1..Len(posted)
      BY <3>1
    <3> QED
      BY <3>2 DEF IInv, PostedWhole
  <2>2. nodes \in Seq(RecvNode)
    BY DEF IInv, TypeOK
  <2>3. CASE UNCHANGED nodes
    BY <2>3
  <2>4. CASE HeadHandler
    <3>1. PICK node : nodes' = Append(nodes, node)
      BY <2>4 DEF HeadHandler, NewNode
    <3> QED
      BY <2>1, <2>2, <3>1
  <2>5. CASE BodyHandler
    <3>1. Len(nodes) = p + 1
      BY <2>1, <2>5 DEF IInv, InBody, BodyHandler, Complete
    <3>2. PICK node : nodes' = [nodes EXCEPT ![Len(nodes)] = node]
      BY <2>5 DEF BodyHandler
    <3> QED
      BY <2>1, <2>2, <3>1, <3>2
  <2>6. UNCHANGED nodes \/ HeadHandler \/ BodyHandler
    BY DEF Next, Session, ClientSend, ClientClose, CloseByWriter, Receive, ReadError
  <2> QED
    BY <2>3, <2>4, <2>5, <2>6
<1> QED
  BY <1>1, Invariant, PTL DEF Spec, PostedFrozen
(* The bodies of the first n of the messages s. *)
Firsts(s, n) == [k \in 1..n |-> BodyOf(s[k])]

LEMMA FirstsNext ==
  ASSUME NEW s, NEW n \in Nat, \A i \in 1..(n + 1) : s[i] \in Frame
  PROVE  /\ Firsts(s, n) \in Seq(Seq(Nat)) /\ Len(Firsts(s, n)) = n
         /\ Firsts(s, n + 1) = Append(Firsts(s, n), BodyOf(s[n + 1]))
         /\ Len(Firsts(s, n + 1)) = n + 1
         /\ \A i \in 1..(n + 1) : Firsts(s, n + 1)[i] = BodyOf(s[i]) /\ BodyOf(s[i]) \in Seq(Nat)
<1>1. ASSUME NEW i \in 1..(n + 1) PROVE BodyOf(s[i]) \in Seq(Nat)
  <2>1. s[i].start + HEAD_TOTAL_LEN \in Nat /\ s[i].len \in Nat
    BY FrameType, LenAssumption
  <2> QED
    BY <2>1, BytesType DEF BodyOf
<1>2. PICK a \in [1..n -> Seq(Nat)] : a = Firsts(s, n) /\ \A i \in 1..n : a[i] = BodyOf(s[i])
  <2>1. \A i \in 1..n : BodyOf(s[i]) \in Seq(Nat)
    BY <1>1
  <2>2. Firsts(s, n) \in [1..n -> Seq(Nat)] /\ \A i \in 1..n : Firsts(s, n)[i] = BodyOf(s[i])
    BY <2>1, Zenon DEF Firsts
  <2> QED
    BY <2>2
<1>3. PICK b \in [1..(n + 1) -> Seq(Nat)] :
        b = Firsts(s, n + 1) /\ \A i \in 1..(n + 1) : b[i] = BodyOf(s[i])
  <2>1. /\ Firsts(s, n + 1) \in [1..(n + 1) -> Seq(Nat)]
        /\ \A i \in 1..(n + 1) : Firsts(s, n + 1)[i] = BodyOf(s[i])
    BY <1>1, Zenon DEF Firsts
  <2> QED
    BY <2>1
<1>4. a \in Seq(Seq(Nat)) /\ Len(a) = n /\ b \in Seq(Seq(Nat)) /\ Len(b) = n + 1
  BY <1>2, <1>3
<1>5. PICK c \in Seq(Nat) : c = BodyOf(s[n + 1])
  BY <1>1
<1>6. b = Append(a, c)
  <2>1. \A i \in 1..n : b[i] = a[i]
    BY <1>2, <1>3
  <2>2. b[n + 1] = c
    BY <1>3, <1>5
  <2> QED
    BY <1>4, <2>1, <2>2
<1> QED
  BY <1>1, <1>2, <1>3, <1>4, <1>5, <1>6

(* The two ends of the channel, as the invariant has them. *)
Put == [k \in DOMAIN sent |-> BodyOf(sent[k])]
Got == [k \in DOMAIN posted |-> nodes[posted[k]].body]
EndsAre ==
  /\ Put = Firsts(sent, Len(sent)) /\ Got = Firsts(sent, Len(posted))
  /\ Len(posted) \in Nat /\ Len(sent) \in Nat /\ Len(posted) <= Len(sent)
  /\ \A i \in 1..Len(sent) : sent[i] \in Frame

LEMMA Ends == IInv => EndsAre
<1> SUFFICES ASSUME IInv PROVE EndsAre
  OBVIOUS
<1>1. sent \in Seq(Frame) /\ posted \in Seq(Nat)
  BY DEF IInv, TypeOK
<1>2. /\ DOMAIN sent = 1..Len(sent) /\ DOMAIN posted = 1..Len(posted)
      /\ Len(posted) \in Nat /\ Len(sent) \in Nat
  BY <1>1
<1>3. /\ Len(posted) <= Len(sent)
      /\ \A i \in DOMAIN posted : nodes[posted[i]].body = BodyOf(sent[i])
  BY DEF IInv, PostedWhole
<1>4. \A i \in 1..Len(sent) : sent[i] \in Frame
  BY <1>1
<1>5. Put = Firsts(sent, Len(sent)) /\ Got = Firsts(sent, Len(posted))
  BY <1>2, <1>3, Zenon DEF Firsts, Put, Got
<1> QED
  BY <1>2, <1>3, <1>4, <1>5 DEF EndsAre

(* Each step of the session and its peer is a Put (a message sent), a Get  *)
(* (a message posted), or changes neither end.                             *)
LEMMA StepChannel == IInv /\ [Next]_vars => [Channel!Next]_(Channel!vars)
<1> SUFFICES ASSUME IInv, [Next]_vars
             PROVE  \/ Channel!Put \/ Channel!Get
                    \/ Put' = Put /\ Got' = Got
  BY DEF Channel!Next, Channel!vars, Put, Got
<1>1. IInv'
  BY StepIInv
<1>2. EndsAre'
  BY <1>1, Ends, PTL
<1>3. PICK n \in Nat, p \in Nat : n = Len(sent) /\ p = Len(posted)
  BY Ends DEF EndsAre
<1>4. PICK m \in Nat, q \in Nat : m = Len(sent') /\ q = Len(posted')
  BY <1>2 DEF EndsAre
<1>5. /\ Put = Firsts(sent, n) /\ Got = Firsts(sent, p) /\ p <= n
      /\ \A i \in 1..n : sent[i] \in Frame
  BY <1>3, Ends DEF EndsAre
<1>6. /\ Put' = Firsts(sent', m) /\ Got' = Firsts(sent', q) /\ q <= m
      /\ \A i \in 1..m : sent'[i] \in Frame
  BY <1>2, <1>4 DEF EndsAre, Firsts, BodyOf
<1>7. CASE UNCHANGED <<sent, posted>>
  BY <1>3, <1>4, <1>5, <1>6, <1>7
<1>8. CASE \E f : sent' = Append(sent, f) /\ UNCHANGED posted
  <2>1. sent \in Seq(Frame)
    BY DEF IInv, TypeOK
  <2>2. m = n + 1 /\ q = p /\ \A i \in 1..n : sent'[i] = sent[i]
    BY <1>3, <1>4, <1>8, <2>1
  <2>3. Put = Firsts(sent', n) /\ Got = Firsts(sent', p)
    <3>1. \A i \in 1..p : i \in 1..n
      BY <1>5
    <3> QED
      BY <1>5, <2>2, <3>1, Zenon DEF Firsts
  <2>4. /\ Len(Put) = n /\ Put' = Append(Put, BodyOf(sent'[n + 1])) /\ Len(Put') = n + 1
        /\ Put'[n + 1] = BodyOf(sent'[n + 1]) /\ BodyOf(sent'[n + 1]) \in Seq(Nat)
    <3>1. \A i \in 1..(n + 1) : sent'[i] \in Frame
      BY <1>6, <2>2
    <3>2. n + 1 \in 1..(n + 1) /\ Put' = Firsts(sent', n + 1)
      BY <1>6, <2>2
    <3> QED
      BY <2>3, <3>1, <3>2, FirstsNext
  <2>5. Got' = Got
    BY <1>6, <2>2, <2>3
  <2>6. /\ Len(Put') = Len(Put) + 1 /\ Put'[Len(Put')] \in Seq(Nat)
        /\ Put' = Append(Put, Put'[Len(Put')])
    BY <2>4
  <2> QED
    BY <2>5, <2>6 DEF Channel!Put, Put, Got
<1>9. CASE posted' = Append(posted, Len(nodes)) /\ UNCHANGED sent
  <2>1. posted \in Seq(Nat)
    BY DEF IInv, TypeOK
  <2>2. m = n /\ q = p + 1 /\ sent' = sent /\ p + 1 <= n
    BY <1>3, <1>4, <1>6, <1>9, <2>1
  <2>3. \A i \in 1..(p + 1) : sent[i] \in Frame
    BY <1>5, <2>2
  <2>4. /\ Len(Got) = p /\ Got' = Append(Got, BodyOf(sent[p + 1]))
    BY <1>5, <1>6, <2>2, <2>3, FirstsNext
  <2>5. Put' = Put
    BY <1>5, <1>6, <2>2
  <2>6. Len(Put) = n /\ Put[p + 1] = BodyOf(sent[p + 1])
    <3>1. p + 1 \in 1..n /\ DOMAIN sent = 1..n
      BY <1>3, <2>2 DEF IInv, TypeOK
    <3>2. Put[p + 1] = BodyOf(sent[p + 1])
      BY <3>1 DEF Put
    <3>3. PICK k \in Nat : n = k + 1
      <4>1. n - 1 \in Nat /\ n = (n - 1) + 1
        BY <2>2
      <4> QED
        BY <4>1
    <3>4. \A i \in 1..(k + 1) : sent[i] \in Frame
      BY <1>5, <3>3
    <3>5. Len(Firsts(sent, k + 1)) = k + 1
      BY <3>4, FirstsNext
    <3> QED
      BY <1>5, <3>2, <3>3, <3>5
  <2>7. Len(Got) < Len(Put) /\ Got' = Append(Got, Put[Len(Got) + 1])
    BY <2>2, <2>4, <2>6
  <2> QED
    BY <2>5, <2>7 DEF Channel!Get, Put, Got
<1>10. \/ UNCHANGED <<sent, posted>>
       \/ \E f : sent' = Append(sent, f) /\ UNCHANGED posted
       \/ posted' = Append(posted, Len(nodes)) /\ UNCHANGED sent
  BY DEF Next, Session, ClientSend, ClientClose, CloseByWriter, Receive, HeadHandler,
     BodyHandler, ReadError, vars
<1> QED
  BY <1>7, <1>8, <1>9, <1>10

LEMMA InitChannel == Init => Channel!Init
<1> SUFFICES ASSUME Init PROVE Put = <<>> /\ Got = <<>>
  BY DEF Channel!Init, Put, Got
<1>1. DOMAIN sent = {} /\ DOMAIN posted = {}
  BY DEF Init
<1> QED
  BY <1>1 DEF Put, Got

(* The reading half implements the FIFO channel: what LogicSystem gets is  *)
(* what the peer sent, whole and in order, however the stream is cut.      *)
THEOREM ImplementsChannel == Spec => FramesInOrder
  BY InitChannel, StepChannel, Invariant, PTL DEF Spec, FramesInOrder, Channel!Spec
=============================================================================
