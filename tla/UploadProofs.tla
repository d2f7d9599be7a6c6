---------------------------- MODULE UploadProofs ----------------------------
(***************************************************************************)
(* Proofs about the upload handler, for any number of sessions, files and  *)
(* pieces: what has been acknowledged is in the file and the one buffer    *)
(* that still belongs to it.                                               *)
(***************************************************************************)
EXTENDS Upload, SequenceTheorems, TLAPS

(* A file of which something is expected is open in one session at most.   *)
SoleWriter ==
  \A n \in Names : expect[n].up # "none" => \A s, t \in Writers(n) : s = t

(* ... and a stream opened with trunc writes at its end.                   *)
AtEnd ==
  \A s \in Sessions : IsOpen(s) /\ ~stream[s].append /\ Promised(stream[s].file)
                        => stream[s].pos = Len(files[stream[s].file])

(* badbit, and a handler that goes on without a stream, are known losses.  *)
FailuresKnown ==
  /\ \A s \in Sessions : IsOpen(s) /\ stream[s].bad => stream[s].file \in lost
  /\ worker # Idle /\ worker.pc = "write" /\ ~IsOpen(worker.s) => worker.r.name \in lost

(* A file that is complete is open in no session. *)
CompleteClosed ==
  \A n \in complete : expect[n].up # "none" => Writers(n) = {}

(* The inductive invariant: Spec => []IInv. *)
IInv == /\ TypeOK /\ SoleWriter /\ AtEnd /\ FailuresKnown /\ CompleteClosed
        /\ AcknowledgedIsWhole

(* The streams that are open on n. *)
StreamOn(n) == [file : {n}, append : BOOLEAN, pos : Nat, buf : Seq(Cell), bad : BOOLEAN]

---------------------------------------------------------------------------
(* Lemmas about files. *)

(* A write leaves a sequence of cells. *)
LEMMA OverwriteType ==
  ASSUME NEW c \in Seq(Cell), NEW d \in Seq(Cell), NEW p \in Nat
  PROVE  Overwrite(c, p, d) \in Seq(Cell)
<1> DEFINE end == IF p + Len(d) > Len(c) THEN p + Len(d) ELSE Len(c)
<1>1. end \in Nat
  OBVIOUS
<1>2. \A i \in 1..end : Overwrite(c, p, d)[i] \in Cell
  BY DEF Overwrite, Cell
<1>3. Overwrite(c, p, d) \in [1..end -> Cell]
  BY <1>2 DEF Overwrite
<1> QED
  BY <1>1, <1>3

(* A write at the end of a file appends. *)
LEMMA OverwriteAtEnd ==
  ASSUME NEW c \in Seq(Cell), NEW d \in Seq(Cell)
  PROVE  Overwrite(c, Len(c), d) = c \o d
<1>1. Overwrite(c, Len(c), d) \in Seq(Cell) /\ c \o d \in Seq(Cell)
  BY OverwriteType, ConcatProperties
<1>2. Len(Overwrite(c, Len(c), d)) = Len(c) + Len(d)
  BY <1>1 DEF Overwrite
<1>3. Len(c \o d) = Len(c) + Len(d)
  BY ConcatProperties
<1>4. \A i \in 1..(Len(c) + Len(d)) : Overwrite(c, Len(c), d)[i] = (c \o d)[i]
  BY DEF Overwrite
<1> QED
  BY <1>1, <1>2, <1>3, <1>4, SeqEqual

(* What is flushed and what stays behind add up to what was buffered.      *)
LEMMA FlushKeepsAll ==
  ASSUME NEW c \in Seq(Cell), NEW b \in Seq(Cell), NEW k \in 0..Len(b)
  PROVE  /\ SubSeq(b, 1, k) \in Seq(Cell) /\ Len(SubSeq(b, 1, k)) = k
         /\ SubSeq(b, k + 1, Len(b)) \in Seq(Cell)
         /\ (c \o SubSeq(b, 1, k)) \o SubSeq(b, k + 1, Len(b)) = c \o b
<1>1. /\ SubSeq(b, 1, k) \in Seq(Cell) /\ SubSeq(b, k + 1, Len(b)) \in Seq(Cell)
      /\ Len(SubSeq(b, 1, k)) = k
  OBVIOUS
<1>2. SubSeq(b, 1, k) \o SubSeq(b, k + 1, Len(b)) = b
  <2>1. 1 \in 1..(Len(b) + 1) /\ k \in (1 - 1)..Len(b) /\ Len(b) \in k..Len(b)
    OBVIOUS
  <2>2. SubSeq(b, 1, k) \o SubSeq(b, k + 1, Len(b)) = SubSeq(b, 1, Len(b))
    BY <2>1, ConcatAdjacentSubSeq
  <2>3. SubSeq(b, 1, Len(b)) = b
    BY SubSeqFull
  <2> QED
    BY <2>2, <2>3
<1> DEFINE front == SubSeq(b, 1, k)
           rest == SubSeq(b, k + 1, Len(b))
<1>3. front \in Seq(Cell) /\ rest \in Seq(Cell)
  BY <1>1
<1>4. (c \o front) \o rest = c \o (front \o rest)
  <2> HIDE DEF front, rest
  <2> QED BY <1>3, ConcatAssociative
<1> QED
  BY <1>1, <1>2, <1>4

(* The expected pieces: their type, their number, and one more of them.    *)
LEMMA PiecesGrow ==
  ASSUME NEW e \in [up : Uploads, len : Nat]
  PROVE  /\ Len(Pieces(e)) = e.len
         /\ Pieces([up |-> e.up, len |-> e.len + 1]) = Pieces(e) \o <<[up |-> e.up, seq |-> e.len + 1]>>
         /\ e.len = 0 => Pieces(e) = <<>>
  BY DEF Pieces

(* The file alone holds the first of the pieces. *)
LEMMA PiecesPrefix ==
  ASSUME NEW e \in [up : Uploads, len : Nat], NEW c \in Seq(Cell), NEW b \in Seq(Cell),
         c \o b = Pieces(e)
  PROVE  c = Pieces([e EXCEPT !.len = Len(c)])
<1>1. \A i \in 1..Len(c) : c[i] = Pieces(e)[i] /\ i \in 1..e.len
  <2>1. Len(c \o b) = e.len /\ Len(c) <= Len(c \o b)
    BY ConcatProperties DEF Pieces
  <2>2. \A i \in 1..Len(c) : (c \o b)[i] = c[i]
    BY ConcatProperties
  <2> QED
    BY <2>1, <2>2
<1>2. \A i \in 1..Len(c) : c[i] = [up |-> e.up, seq |-> i]
  BY <1>1 DEF Pieces
<1> QED
  BY <1>2 DEF Pieces
---------------------------------------------------------------------------
(* The state machine. *)

(* What a flush leaves of the file and the stream it belongs to.           *)
LEMMA FlushFacts ==
  ASSUME NEW n \in Names, files \in [Names -> Seq(Cell)],
         NEW st \in StreamOn(n),
         NEW b \in Seq(Cell), NEW k \in 0..Len(b)
  PROVE  /\ Flushed(st, b, k) \in [Names -> Seq(Cell)]
         /\ \A m \in Names : m # n => Flushed(st, b, k)[m] = files[m]
         /\ Rest(st, b, k).buf \in Seq(Cell)
         /\ Rest(st, b, k) \in StreamOn(n)
         /\ Rest(st, b, k).append = st.append
         /\ st.append \/ st.pos = Len(files[n]) =>
              Flushed(st, b, k)[n] \o Rest(st, b, k).buf = files[n] \o b
         /\ st.pos = Len(files[n]) /\ ~st.append =>
              Rest(st, b, k).pos = Len(Flushed(st, b, k)[n])
<1>0. /\ st.file = n /\ st.append \in BOOLEAN /\ st.pos \in Nat
      /\ st = [file |-> n, append |-> st.append, pos |-> st.pos, buf |-> st.buf, bad |-> st.bad]
      /\ st.bad \in BOOLEAN
  BY DEF StreamOn
<1>1. PICK c \in Seq(Cell) : c = files[n]
  OBVIOUS
<1>2. PICK front \in Seq(Cell), behind \in Seq(Cell) :
        /\ front = SubSeq(b, 1, k) /\ Len(front) = k /\ behind = SubSeq(b, k + 1, Len(b))
        /\ (c \o front) \o behind = c \o b
  BY FlushKeepsAll
<1>3. /\ Rest(st, b, k).buf = behind /\ Rest(st, b, k).pos = IF st.append THEN 0 ELSE st.pos + k
      /\ Rest(st, b, k).append = st.append
  BY <1>0, <1>2 DEF Rest
<1>6. Rest(st, b, k) \in StreamOn(n)
  <2>1. (IF st.append THEN 0 ELSE st.pos + k) \in Nat
    BY <1>0
  <2> QED
    BY <1>0, <1>2, <2>1 DEF Rest, StreamOn
<1>4. CASE k = 0
  <2>1. Flushed(st, b, k) = files
    BY <1>4 DEF Flushed
  <2>2. behind = b
    BY <1>2, <1>4, SubSeqFull
  <2>3. st.pos = Len(files[n]) /\ ~st.append => Rest(st, b, k).pos = Len(Flushed(st, b, k)[n])
    BY <1>0, <1>3, <1>4, <2>1
  <2>4. Flushed(st, b, k)[n] \o Rest(st, b, k).buf = files[n] \o b
    BY <1>3, <2>1, <2>2
  <2> QED
    BY <1>2, <1>3, <1>6, <2>1, <2>3, <2>4
<1>5. CASE k # 0
  <2>1. Flushed(st, b, k) =
          [files EXCEPT ![n] = IF st.append THEN c \o front ELSE Overwrite(c, st.pos, front)]
    BY <1>0, <1>1, <1>2, <1>5 DEF Flushed
  <2>2. c \o front \in Seq(Cell) /\ Len(c \o front) = Len(c) + k
    BY <1>2, ConcatProperties
  <2>3. Overwrite(c, st.pos, front) \in Seq(Cell)
    BY <1>0, OverwriteType
  <2>4. st.pos = Len(c) => Overwrite(c, st.pos, front) = c \o front
    BY OverwriteAtEnd
  <2> QED
    BY <1>0, <1>1, <1>2, <1>3, <1>6, <2>1, <2>2, <2>3, <2>4
<1> QED
  BY <1>4, <1>5

(* Closing a stream keeps the invariant of the files and streams.          *)
LEMMA CloseKeeps ==
  ASSUME IInv, NEW s \in Sessions, IsOpen(s), Close(s), UNCHANGED expect,
         complete' \in SUBSET Names, complete' \subseteq complete \cup {stream[s].file}
  PROVE  /\ files' \in [Names -> Seq(Cell)] /\ lost' \subseteq Names /\ lost \subseteq lost'
         /\ stream' = [stream EXCEPT ![s] = Closed]
         /\ SoleWriter' /\ AtEnd' /\ CompleteClosed' /\ AcknowledgedIsWhole'
         /\ \A t \in Sessions : (IsOpen(t) /\ stream[t].bad => stream[t].file \in lost)'
<1>0. PICK st, n : st = stream[s] /\ n = stream[s].file
  OBVIOUS
<1>1. PICK k \in 0..Len(st.buf) :
        /\ files' = Flushed(st, st.buf, k)
        /\ lost' = IF k = Len(st.buf) THEN lost ELSE lost \cup {n}
  BY <1>0 DEF Close
<1>2. /\ st.buf \in Seq(Cell) /\ n \in Names /\ TypeOK
      /\ files \in [Names -> Seq(Cell)] /\ stream' = [stream EXCEPT ![s] = Closed]
      /\ stream'[s] = Closed /\ \A t \in Sessions : t # s => stream'[t] = stream[t]
      /\ st \in StreamOn(n)
  BY <1>0 DEF IInv, TypeOK, IsOpen, Close, Closed, StreamOn
<1>3. /\ files' \in [Names -> Seq(Cell)]
      /\ \A m \in Names : m # n => files'[m] = files[m]
      /\ Rest(st, st.buf, k).buf \in Seq(Cell)
      /\ st.append \/ st.pos = Len(files[n]) =>
           files'[n] \o Rest(st, st.buf, k).buf = files[n] \o st.buf
  <2>1. PICK b \in Seq(Cell) : b = st.buf
    BY <1>2
  <2>2. k \in 0..Len(b) /\ files' = Flushed(st, b, k)
    BY <1>1, <2>1
  <2>3. /\ Flushed(st, b, k) \in [Names -> Seq(Cell)]
        /\ \A m \in Names : m # n => Flushed(st, b, k)[m] = files[m]
        /\ Rest(st, b, k).buf \in Seq(Cell)
        /\ st.append \/ st.pos = Len(files[n]) =>
             Flushed(st, b, k)[n] \o Rest(st, b, k).buf = files[n] \o b
    <3>1. n \in Names /\ files \in [Names -> Seq(Cell)] /\ st \in StreamOn(n) /\ k \in 0..Len(b)
      BY <1>2, <2>2
    <3> QED
      BY <3>1, FlushFacts
  <2> QED
    BY <2>1, <2>2, <2>3
<1>4. /\ lost' \subseteq Names /\ lost \subseteq lost'
  BY <1>1, <1>2 DEF IInv, TypeOK
<1>5. \A m \in Names : Writers(m)' = Writers(m) \ {s}
  BY <1>2, NamesAssumption DEF Writers, Closed
<1>6. SoleWriter'
  BY <1>5 DEF IInv, SoleWriter
<1>7. Promised(n)' => Writers(n)' = {}
  BY <1>0, <1>2, <1>5 DEF IInv, SoleWriter, Promised, Writers
<1>8. AtEnd'
  <2> SUFFICES ASSUME NEW t \in Sessions, (IsOpen(t) /\ ~stream[t].append /\ Promised(stream[t].file))'
               PROVE  (stream[t].pos = Len(files[stream[t].file]))'
    BY DEF AtEnd
  <2>1. t # s /\ stream'[t] = stream[t]
    BY <1>2 DEF IsOpen, Closed
  <2>2. stream[t].file \in Names /\ Promised(stream[t].file)
    BY <1>4, <2>1 DEF IInv, TypeOK, IsOpen, Promised
  <2>3. stream[t].file # n
    BY <1>7, <2>1, <2>2, <1>2, <1>4 DEF Writers, Promised
  <2> QED
    BY <1>3, <2>1, <2>2, <2>3 DEF IInv, AtEnd, IsOpen
<1>9. CompleteClosed'
  <2> SUFFICES ASSUME NEW m \in complete', expect'[m].up # "none" PROVE Writers(m)' = {}
    BY DEF CompleteClosed
  <2>1. CASE m = n
    BY <1>0, <1>2, <1>5, <2>1 DEF IInv, SoleWriter, Writers
  <2>2. CASE m # n
    BY <1>0, <1>5, <2>2 DEF IInv, CompleteClosed
  <2> QED
    BY <2>1, <2>2
<1>10. AcknowledgedIsWhole'
  <2> SUFFICES ASSUME NEW m \in Names, Promised(m)'
               PROVE  /\ \A t \in Writers(m)' : files'[m] \o stream'[t].buf = Pieces(expect'[m])
                      /\ Writers(m)' = {} => files'[m] = Pieces(expect'[m])
    BY DEF AcknowledgedIsWhole
  <2>1. Promised(m)
    BY <1>4 DEF Promised
  <2>2. CASE m = n
    <3>1. k = Len(st.buf)
      BY <1>1, <2>2 DEF Promised
    <3>2. files[n] \o st.buf = Pieces(expect[n])
      BY <1>0, <1>2, <2>1, <2>2 DEF IInv, AcknowledgedIsWhole, Writers
    <3>3. st.append \/ st.pos = Len(files[n])
      BY <1>0, <1>2, <2>1, <2>2 DEF IInv, AtEnd
    <3>4. Rest(st, st.buf, k).buf = <<>>
      BY <3>1, <1>2, SubSeqEmpty DEF Rest, IInv, TypeOK
    <3>5. files'[n] \o <<>> = files'[n]
      BY <1>2, <1>3, ConcatEmptySeq
    <3> QED
      BY <1>3, <1>7, <2>2, <3>2, <3>3, <3>4, <3>5
  <2>3. CASE m # n
    <3>1. Writers(m)' = Writers(m) /\ files'[m] = files[m]
      BY <1>0, <1>2, <1>3, <1>5, <2>3 DEF Writers
    <3>2. \A t \in Writers(m) : stream'[t] = stream[t]
      BY <1>0, <1>2, <2>3 DEF Writers
    <3> QED
      BY <2>1, <3>1, <3>2 DEF IInv, AcknowledgedIsWhole
  <2> QED
    BY <2>2, <2>3
<1>11. \A t \in Sessions : (IsOpen(t) /\ stream[t].bad => stream[t].file \in lost)'
  BY <1>2, <1>4 DEF IInv, FailuresKnown, IsOpen, Closed
<1> QED
  BY <1>2, <1>3, <1>4, <1>6, <1>8, <1>9, <1>10, <1>11

(* Where the file and the streams stay, so does what is known of them.     *)
LEMMA ExpectOnly ==
  ASSUME IInv, NEW n \in Names, UNCHANGED <<files, stream>>, lost \subseteq lost',
         complete' \subseteq complete, n \in lost' \/ expect'[n].up = "none",
         \A m \in Names : m # n => expect'[m] = expect[m],
         expect'[n].up # "none" => expect[n].up # "none" \/ Writers(n) = {}
  PROVE  SoleWriter' /\ AtEnd' /\ CompleteClosed' /\ AcknowledgedIsWhole'
<1>1. \A m \in Names : Writers(m)' = Writers(m)
  BY DEF Writers
<1>2. \A m \in Names : Promised(m)' => m # n /\ Promised(m)
  BY DEF Promised
<1>3. SoleWriter'
  BY <1>1 DEF IInv, SoleWriter
<1>4. AtEnd'
  BY <1>2 DEF IInv, TypeOK, AtEnd, IsOpen
<1>5. CompleteClosed'
  BY <1>1 DEF IInv, TypeOK, CompleteClosed
<1>6. AcknowledgedIsWhole'
  BY <1>1, <1>2 DEF IInv, AcknowledgedIsWhole
<1> QED
  BY <1>3, <1>4, <1>5, <1>6

(* Opening a stream keeps the invariant. *)
LEMMA OpenKeeps == IInv /\ OpenStream => IInv'
<1> SUFFICES ASSUME IInv, OpenStream PROVE IInv'
  OBVIOUS
<1>0. PICK s \in Sessions, r \in Request :
        worker \in [pc : {"open"}, s : Sessions, r : Request] /\ s = worker.s /\ r = worker.r
  BY DEF IInv, TypeOK, OpenStream, Idle
<1>1. PICK n \in Names : n = r.name
  BY DEF Request
<1>2. /\ stream[s].file = "none"
      /\ stream' = [stream EXCEPT ![s] = Opened(n, ~Truncates(r))]
      /\ files' = IF Truncates(r) THEN [files EXCEPT ![n] = <<>>] ELSE files
      /\ expect' = [expect EXCEPT ![n] = IF Writers(n) # {} THEN Nothing
                                         ELSE IF r.seq = 1 THEN [up |-> r.up, len |-> 0] ELSE @]
      /\ lost' = IF r.seq = 1 /\ Writers(n) = {} THEN lost \ {n} ELSE lost
      /\ complete' = complete \ {n}
      /\ worker' = [worker EXCEPT !.pc = "write"] /\ requests' = requests
  BY <1>0, <1>1 DEF OpenStream, ExpectAtOpen, IsOpen, Goto
<1>3. /\ stream'[s].file = n /\ stream'[s].append = ~Truncates(r)
      /\ stream'[s].pos = 0 /\ stream'[s].buf = <<>> /\ stream'[s].bad = FALSE
      /\ \A t \in Sessions : t # s => stream'[t] = stream[t]
  BY <1>2 DEF Opened, IInv, TypeOK
<1>4. /\ Writers(n)' = Writers(n) \cup {s}
      /\ \A m \in Names : m # n => /\ Writers(m)' = Writers(m) /\ files'[m] = files[m]
                                   /\ expect'[m] = expect[m] /\ (m \in lost' <=> m \in lost)
  BY <1>1, <1>2, <1>3, NamesAssumption DEF Writers, IInv, TypeOK
<1>5. expect'[n].up # "none" => Writers(n) = {} /\ Writers(n)' = {s}
  BY <1>2, <1>4 DEF IInv, TypeOK, Nothing
<1>6. Promised(n)' => /\ files'[n] = Pieces(expect'[n])
                      /\ Truncates(r) => files'[n] = <<>>
  <2>1. CASE r.seq = 1
    <3>1. Promised(n)' => expect'[n] = [up |-> r.up, len |-> 0]
      BY <1>2, <1>5, <2>1 DEF IInv, TypeOK, Promised
    <3>2. Pieces([up |-> r.up, len |-> 0]) = <<>>
      BY DEF Pieces
    <3> QED
      BY <1>2, <2>1, <3>1, <3>2 DEF Truncates, IInv, TypeOK
  <2>2. CASE r.seq # 1
    BY <1>2, <1>5, <2>2 DEF IInv, TypeOK, AcknowledgedIsWhole, Promised, Truncates
  <2> QED
    BY <2>1, <2>2
<1>7. files'[n] \in Seq(Cell)
  BY <1>2 DEF IInv, TypeOK
<1>8. TypeOK'
  <2>1. stream' \in [Sessions -> [file : Names \cup {"none"}, append : BOOLEAN, pos : Nat,
                                  buf : Seq(Cell), bad : BOOLEAN]]
    <3>1. Opened(n, ~Truncates(r)) \in
            [file : Names \cup {"none"}, append : BOOLEAN, pos : Nat, buf : Seq(Cell), bad : BOOLEAN]
      <4>1. PICK app \in BOOLEAN : app = ~Truncates(r)
        BY Zenon DEF Truncates
      <4>2. Opened(n, app) \in
              [file : Names \cup {"none"}, append : BOOLEAN, pos : Nat, buf : Seq(Cell), bad : BOOLEAN]
        BY DEF Opened
      <4> QED
        BY <4>1, <4>2
    <3> QED
      BY <1>2, <3>1 DEF IInv, TypeOK
  <2>2. worker' \in [pc : {"write"}, s : Sessions, r : Request]
    BY <1>0, <1>2
  <2>3. expect' \in [Names -> [up : Uploads \cup {"none"}, len : Nat]]
    BY <1>2 DEF IInv, TypeOK, Nothing, Request
  <2>4. files' \in [Names -> Seq(Cell)]
    BY <1>2 DEF IInv, TypeOK
  <2> QED
    BY <1>2, <2>1, <2>2, <2>3, <2>4 DEF IInv, TypeOK
<1>9. SoleWriter'
  BY <1>4, <1>5 DEF IInv, SoleWriter
<1>10. AtEnd'
  <2> SUFFICES ASSUME NEW t \in Sessions, NEW m \in Names, m = stream'[t].file,
                      ~stream'[t].append, Promised(m)'
               PROVE  stream'[t].pos = Len(files'[m])
    BY <1>8, NamesAssumption DEF AtEnd, IsOpen, TypeOK
  <2>1. CASE m = n
    <3>1. t = s
      BY <1>5, <2>1 DEF Promised, Writers
    <3>2. Truncates(r)
      BY <1>3, <3>1, Zenon
    <3> QED
      BY <1>3, <1>6, <2>1, <3>1, <3>2
  <2>2. CASE m # n
    BY <1>3, <1>4, <2>2, NamesAssumption DEF IInv, AtEnd, IsOpen, Promised
  <2> QED
    BY <2>1, <2>2
<1>11. FailuresKnown'
  <2>1. IsOpen(s)' /\ worker'.s = s
    BY <1>0, <1>1, <1>2, <1>3, NamesAssumption DEF IsOpen
  <2>2. \A t \in Sessions : stream'[t].file # "none" /\ stream'[t].bad =>
                              stream'[t].file \in lost'
    <3> SUFFICES ASSUME NEW t \in Sessions, stream'[t].file # "none", stream'[t].bad
                 PROVE  stream'[t].file \in lost'
      OBVIOUS
    <3>1. t # s /\ stream'[t] = stream[t] /\ stream[t].file \in lost
      BY <1>3 DEF IInv, FailuresKnown, IsOpen
    <3>2. CASE stream[t].file = n
      BY <1>2, <3>1, <3>2 DEF Writers
    <3>3. CASE stream[t].file # n
      BY <1>2, <3>1, <3>3
    <3> QED
      BY <3>2, <3>3
  <2> QED
    BY <2>1, <2>2 DEF FailuresKnown, IsOpen
<1>12. CompleteClosed'
  BY <1>2, <1>4 DEF IInv, TypeOK, CompleteClosed
<1>13. AcknowledgedIsWhole'
  <2> SUFFICES ASSUME NEW m \in Names, Promised(m)'
               PROVE  /\ \A t \in Writers(m)' : files'[m] \o stream'[t].buf = Pieces(expect'[m])
                      /\ Writers(m)' = {} => files'[m] = Pieces(expect'[m])
    BY DEF AcknowledgedIsWhole
  <2>1. CASE m = n
    <3>1. files'[n] \o <<>> = files'[n]
      BY <1>7, ConcatEmptySeq
    <3> QED
      BY <1>3, <1>4, <1>5, <1>6, <2>1, <3>1 DEF Promised
  <2>2. CASE m # n
    <3>1. \A t \in Writers(m) : stream'[t] = stream[t]
      BY <1>1, <1>2, <1>3, NamesAssumption DEF Writers
    <3>2. Promised(m)
      BY <1>4, <2>2 DEF Promised
    <3>3. /\ \A t \in Writers(m) : files[m] \o stream[t].buf = Pieces(expect[m])
          /\ Writers(m) = {} => files[m] = Pieces(expect[m])
      BY <3>2 DEF IInv, AcknowledgedIsWhole
    <3> QED
      BY <1>4, <2>2, <3>1, <3>3
  <2> QED
    BY <2>1, <2>2
<1> QED
  BY <1>8, <1>9, <1>10, <1>11, <1>12, <1>13 DEF IInv

(* Writing to the stream keeps the invariant. *)
LEMMA WriteKeeps == IInv /\ WriteOpen => IInv'
<1> SUFFICES ASSUME IInv, WriteOpen PROVE IInv'
  OBVIOUS
<1>0. PICK s \in Sessions, r \in Request :
        worker \in [pc : {"write"}, s : Sessions, r : Request] /\ s = worker.s /\ r = worker.r
  BY DEF IInv, TypeOK, WriteOpen, Idle
<1>18. PICK st : st = stream[s]
  OBVIOUS
<1>1. PICK n \in Names : st = stream[s] /\ n = stream[s].file
  BY <1>0, <1>18 DEF IInv, TypeOK, WriteOpen, IsOpen
<1>2. /\ st \in StreamOn(n) /\ st.buf \in Seq(Cell) /\ st.bad \in BOOLEAN
      /\ files \in [Names -> Seq(Cell)] /\ n \in Names /\ st.file = n
  BY <1>1 DEF IInv, TypeOK, StreamOn
<1>3. PICK data, bad, buf, k :
        /\ data \in Decoded(r) /\ bad \in BOOLEAN /\ k \in 0..Len(buf)
        /\ buf = IF st.bad THEN st.buf ELSE st.buf \o data
        /\ st.bad => bad
        /\ files' = Flushed(st, buf, k)
        /\ stream' = [stream EXCEPT ![s] = [Rest(st, buf, k) EXCEPT !.bad = bad]]
        /\ lost' = IF bad THEN lost \cup {n} ELSE lost
  <2>1. PICK data \in Decoded(r), bad \in BOOLEAN : Put(s, data, bad)
    BY <1>0 DEF WriteOpen
  <2>2. PICK buf : buf = IF st.bad THEN st.buf ELSE st.buf \o data
    OBVIOUS
  <2>3. PICK k \in 0..Len(buf) :
          /\ st.bad => bad
          /\ files' = Flushed(st, buf, k)
          /\ stream' = [stream EXCEPT ![s] = [Rest(st, buf, k) EXCEPT !.bad = bad]]
          /\ lost' = IF bad THEN lost \cup {n} ELSE lost
    BY <1>1, <2>1, <2>2 DEF Put
  <2> QED
    BY <2>2, <2>3
<1>4. /\ expect' = [expect EXCEPT ![n] = Extended(expect[n], n, r)]
      /\ worker' = [worker EXCEPT !.pc = "close"] /\ UNCHANGED <<requests, complete>>
  BY <1>0, <1>1 DEF WriteOpen, ExpectAtWrite, Goto
<1>5. data \in Seq(Cell) /\ buf \in Seq(Cell) /\ k \in 0..Len(buf)
  <2>1. [up |-> r.up, seq |-> r.seq] \in Cell /\ Junk \in Cell
    BY <1>0 DEF Cell, Piece, Request
  <2>2. /\ <<[up |-> r.up, seq |-> r.seq]>> \in Seq(Cell)
        /\ <<>> \in Seq(Cell) /\ <<Junk>> \in Seq(Cell)
    BY <2>1
  <2>3. data \in Seq(Cell)
    BY <1>3, <2>2, Zenon DEF Decoded
  <2> QED
    BY <1>2, <1>3, <2>3, ConcatProperties
<1>6. PICK rest \in StreamOn(n) :
        /\ rest = Rest(st, buf, k)
        /\ rest.buf \in Seq(Cell) /\ rest.append = st.append
        /\ files' \in [Names -> Seq(Cell)]
        /\ \A m \in Names : m # n => files'[m] = files[m]
        /\ st.append \/ st.pos = Len(files[n]) => files'[n] \o rest.buf = files[n] \o buf
        /\ st.pos = Len(files[n]) /\ ~st.append => rest.pos = Len(files'[n])
  <2>0. PICK b \in Seq(Cell) : b = buf
    BY <1>5
  <2>1. PICK j \in 0..Len(b) : j = k
    BY <1>5, <2>0
  <2>2. n \in Names /\ files \in [Names -> Seq(Cell)] /\ st \in StreamOn(n)
    BY <1>2
  <2>3. /\ Flushed(st, b, j) \in [Names -> Seq(Cell)]
        /\ \A m \in Names : m # n => Flushed(st, b, j)[m] = files[m]
        /\ Rest(st, b, j).buf \in Seq(Cell)
        /\ Rest(st, b, j) \in StreamOn(n)
        /\ Rest(st, b, j).append = st.append
        /\ st.append \/ st.pos = Len(files[n]) =>
             Flushed(st, b, j)[n] \o Rest(st, b, j).buf = files[n] \o b
        /\ st.pos = Len(files[n]) /\ ~st.append =>
             Rest(st, b, j).pos = Len(Flushed(st, b, j)[n])
    BY <2>2, FlushFacts
  <2>4. files' = Flushed(st, b, j)
    BY <1>3, <2>0, <2>1
  <2> QED
    BY <2>0, <2>1, <2>3, <2>4
<1>7. /\ stream' = [stream EXCEPT ![s] = [rest EXCEPT !.bad = bad]]
      /\ \A t \in Sessions : t # s => stream'[t] = stream[t]
      /\ stream'[s].file = n /\ stream'[s].buf = rest.buf /\ stream'[s].pos = rest.pos
      /\ stream'[s].append = rest.append /\ stream'[s].bad = bad
      /\ stream'[s] \in StreamOn(n)
  BY <1>3, <1>6 DEF IInv, TypeOK, StreamOn
<1>8. \A m \in Names : Writers(m)' = Writers(m)
  BY <1>1, <1>7 DEF Writers
<1>9. Promised(n)' => /\ Promised(n) /\ ~bad /\ r.valid /\ r.up = expect[n].up
                      /\ r.seq = expect[n].len + 1
                      /\ expect'[n] = [up |-> expect[n].up, len |-> expect[n].len + 1]
  <2>1. ~bad /\ n \notin lost <=> n \notin lost'
    BY <1>3
  <2>2. expect'[n] = Extended(expect[n], n, r)
    BY <1>4 DEF IInv, TypeOK
  <2>3. expect'[n].up # "none" =>
          /\ expect[n].up # "none" /\ r.valid /\ r.up = expect[n].up
          /\ r.seq = expect[n].len + 1
          /\ expect'[n] = [up |-> expect[n].up, len |-> expect[n].len + 1]
    BY <2>2 DEF Extended, Nothing
  <2> QED
    BY <2>1, <2>3 DEF Promised
<1>10. \A m \in Names : m # n => /\ files'[m] = files[m] /\ expect'[m] = expect[m]
                                /\ (Promised(m)' <=> Promised(m))
  BY <1>3, <1>4, <1>6 DEF Promised, IInv, TypeOK
<1>11. TypeOK'
  <2>1. worker' \in [pc : {"close"}, s : Sessions, r : Request]
    BY <1>0, <1>4
  <2>2. stream' \in [Sessions -> [file : Names \cup {"none"}, append : BOOLEAN, pos : Nat,
                                  buf : Seq(Cell), bad : BOOLEAN]]
    BY <1>7 DEF IInv, TypeOK, StreamOn
  <2>3. expect' \in [Names -> [up : Uploads \cup {"none"}, len : Nat]]
    <3>4. Extended(expect[n], n, r) \in [up : Uploads \cup {"none"}, len : Nat]
      BY DEF Extended, Nothing, IInv, TypeOK
    <3> QED
      BY <1>4, <3>4 DEF IInv, TypeOK
  <2> QED
    BY <1>3, <1>4, <1>6, <2>1, <2>2, <2>3 DEF IInv, TypeOK
<1>17. \A m \in Names : expect'[m].up # "none" => expect[m].up # "none"
  BY <1>4 DEF IInv, TypeOK, Extended, Nothing
<1>12. SoleWriter'
  BY <1>8, <1>17 DEF IInv, SoleWriter
<1>13. AtEnd'
  <2> SUFFICES ASSUME NEW t \in Sessions, NEW m \in Names, m = stream'[t].file,
                      ~stream'[t].append, Promised(m)'
               PROVE  stream'[t].pos = Len(files'[m])
    BY <1>11, NamesAssumption DEF AtEnd, IsOpen, TypeOK
  <2>1. CASE m = n
    <3>1. t = s
      BY <1>1, <1>7, <1>8, <1>9, <2>1 DEF IInv, SoleWriter, Promised, Writers
    <3>2. st.pos = Len(files[n]) /\ ~st.append
      BY <1>1, <1>6, <1>7, <1>9, <2>1, <3>1, NamesAssumption DEF IInv, AtEnd, IsOpen
    <3> QED
      BY <1>6, <1>7, <2>1, <3>1, <3>2
  <2>2. CASE m # n
    BY <1>7, <1>10, <2>2, NamesAssumption DEF IInv, AtEnd, IsOpen
  <2> QED
    BY <2>1, <2>2
<1>14. FailuresKnown'
  BY <1>3, <1>4, <1>7, <1>0 DEF IInv, FailuresKnown, IsOpen, Idle
<1>15. CompleteClosed'
  BY <1>4, <1>8, <1>17 DEF IInv, TypeOK, CompleteClosed
<1>16. AcknowledgedIsWhole'
  <2> SUFFICES ASSUME NEW m \in Names, Promised(m)'
               PROVE  /\ \A t \in Writers(m)' : files'[m] \o stream'[t].buf = Pieces(expect'[m])
                      /\ Writers(m)' = {} => files'[m] = Pieces(expect'[m])
    BY DEF AcknowledgedIsWhole
  <2>1. CASE m = n
    <3>1. s \in Writers(n) /\ \A t \in Writers(n) : t = s
      BY <1>1, <1>9, <2>1 DEF IInv, SoleWriter, Promised, Writers
    <3>2. st.append \/ st.pos = Len(files[n])
      BY <1>1, <1>9, <2>1, NamesAssumption DEF IInv, AtEnd, IsOpen
    <3>3. files[n] \o st.buf = Pieces(expect[n])
      BY <1>1, <1>9, <2>1, <3>1 DEF IInv, AcknowledgedIsWhole
    <3>4. ~st.bad /\ data = <<[up |-> r.up, seq |-> r.seq]>>
      BY <1>3, <1>9, <2>1 DEF Decoded
    <3>5. files[n] \o buf = (files[n] \o st.buf) \o data
      <4>1. buf = st.buf \o data
        BY <1>3, <3>4
      <4>2. PICK c \in Seq(Cell), b \in Seq(Cell), d \in Seq(Cell) :
              c = files[n] /\ b = st.buf /\ d = data
        BY <1>2, <1>5
      <4>3. (c \o b) \o d = c \o (b \o d)
        BY ConcatAssociative
      <4> QED
        BY <4>1, <4>2, <4>3
    <3>6. expect[n] \in [up : Uploads, len : Nat]
      BY <1>9, <2>1 DEF IInv, TypeOK, Promised
    <3>7. files'[n] \o rest.buf = Pieces(expect'[n])
      BY <1>6, <1>9, <2>1, <3>2, <3>3, <3>4, <3>5, <3>6, PiecesGrow
    <3> QED
      BY <1>7, <1>8, <2>1, <3>1, <3>7
  <2>2. CASE m # n
    <3>1. \A t \in Writers(m) : stream'[t] = stream[t]
      BY <1>1, <1>7, <2>2 DEF Writers
    <3>2. /\ \A t \in Writers(m) : files[m] \o stream[t].buf = Pieces(expect[m])
          /\ Writers(m) = {} => files[m] = Pieces(expect[m])
      BY <1>10, <2>2 DEF IInv, AcknowledgedIsWhole
    <3> QED
      BY <1>8, <1>10, <2>2, <3>1, <3>2
  <2> QED
    BY <2>1, <2>2
<1> QED
  BY <1>11, <1>12, <1>13, <1>14, <1>15, <1>16 DEF IInv

(* A request that goes on without a stream keeps the invariant.            *)
LEMMA NowhereKeeps == IInv /\ (OpenFails \/ WriteNowhere) => IInv'
<1> SUFFICES ASSUME IInv, OpenFails \/ WriteNowhere PROVE IInv'
  OBVIOUS
<1>0. PICK s \in Sessions, r \in Request :
        /\ worker \in [pc : {"open", "write"}, s : Sessions, r : Request]
        /\ s = worker.s /\ r = worker.r
  BY DEF IInv, TypeOK, OpenFails, WriteNowhere, Idle
<1>1. PICK n \in Names : n = r.name
  BY DEF Request
<1>2. /\ UNCHANGED <<files, stream, requests>>
      /\ lost' = lost \cup {n} /\ complete' \subseteq complete
  <2>1. CASE OpenFails
    BY <1>0, <1>1, <2>1 DEF OpenFails
  <2>2. CASE WriteNowhere
    BY <1>0, <1>1, <2>2 DEF WriteNowhere, IInv, FailuresKnown, Idle
  <2> QED
    BY <2>1, <2>2
<1>3. PICK e \in [up : Uploads \cup {"none"}, len : Nat] :
        /\ expect' = [expect EXCEPT ![n] = e]
        /\ e.up # "none" => expect[n].up # "none" \/ Writers(n) = {}
  <2>1. CASE OpenFails
    <3>1. expect' = [expect EXCEPT ![n] = IF Writers(n) # {} THEN Nothing
                       ELSE IF r.seq = 1 THEN [up |-> r.up, len |-> 0] ELSE expect[n]]
      BY <1>0, <1>1, <2>1 DEF OpenFails, ExpectAtOpen
    <3>2. /\ Nothing \in [up : Uploads \cup {"none"}, len : Nat] /\ Nothing.up = "none"
          /\ [up |-> r.up, len |-> 0] \in [up : Uploads \cup {"none"}, len : Nat]
          /\ expect[n] \in [up : Uploads \cup {"none"}, len : Nat]
      BY DEF Nothing, Request, IInv, TypeOK
    <3> QED
      BY <3>1, <3>2
  <2>2. CASE WriteNowhere
    <3>1. expect' = [expect EXCEPT ![n] = Extended(expect[n], n, r)]
      BY <1>0, <1>1, <2>2 DEF WriteNowhere, ExpectAtWrite
    <3>2. /\ Extended(expect[n], n, r) \in [up : Uploads \cup {"none"}, len : Nat]
          /\ Extended(expect[n], n, r).up # "none" => expect[n].up # "none"
      BY DEF Extended, Nothing, IInv, TypeOK
    <3> QED
      BY <3>1, <3>2
  <2> QED
    BY <2>1, <2>2
<1>4. worker' = [worker EXCEPT !.pc = worker'.pc] /\ worker'.pc \in {"write", "close"}
  BY <1>0 DEF OpenFails, WriteNowhere, Goto
<1>5. /\ expect'[n] = e /\ \A m \in Names : m # n => expect'[m] = expect[m]
      /\ expect' \in [Names -> [up : Uploads \cup {"none"}, len : Nat]]
  BY <1>3 DEF IInv, TypeOK
<1>6. SoleWriter' /\ AtEnd' /\ CompleteClosed' /\ AcknowledgedIsWhole'
  BY <1>2, <1>3, <1>5, ExpectOnly
<1>7. TypeOK'
  <2>1. worker' \in [pc : {"open", "write", "close"}, s : Sessions, r : Request]
    BY <1>0, <1>4
  <2> QED
    BY <1>2, <1>5, <2>1 DEF IInv, TypeOK
<1>8. FailuresKnown'
  <2>1. worker'.r = r
    BY <1>0, <1>4
  <2> QED
    BY <1>1, <1>2, <2>1 DEF IInv, FailuresKnown, IsOpen
<1> QED
  BY <1>6, <1>7, <1>8 DEF IInv

(* Closing a stream, by the last piece or with the session, keeps the      *)
(* invariant.                                                              *)
LEMMA EndKeeps == IInv /\ (Finish \/ \E s \in Sessions : DestroySession(s)) => IInv'
<1>1. ASSUME IInv, NEW s \in Sessions, DestroySession(s) PROVE IInv'
  <2>1. /\ IsOpen(s) /\ Close(s) /\ UNCHANGED <<worker, requests, expect, complete>>
        /\ ~Busy(s) /\ complete \in SUBSET Names
    BY <1>1 DEF DestroySession, IInv, TypeOK
  <2>2. /\ files' \in [Names -> Seq(Cell)] /\ lost' \subseteq Names /\ lost \subseteq lost'
        /\ stream' = [stream EXCEPT ![s] = Closed]
        /\ SoleWriter' /\ AtEnd' /\ CompleteClosed' /\ AcknowledgedIsWhole'
        /\ \A t \in Sessions : (IsOpen(t) /\ stream[t].bad => stream[t].file \in lost)'
    BY <1>1, <2>1, CloseKeeps
  <2>3. TypeOK'
    BY <1>1, <2>1, <2>2 DEF IInv, TypeOK, Closed
  <2>4. FailuresKnown'
    BY <1>1, <2>1, <2>2 DEF IInv, FailuresKnown, IsOpen, Busy
  <2> QED
    BY <2>2, <2>3, <2>4 DEF IInv
<1>2. ASSUME IInv, Finish PROVE IInv'
  <2>0. PICK s \in Sessions, r \in Request : s = worker.s /\ r = worker.r
    BY <1>2 DEF IInv, TypeOK, Finish, Idle
  <2>1. CASE r.last /\ IsOpen(s)
    <3>1. /\ Close(s) /\ complete' = complete \cup {stream[s].file} /\ worker' = Idle
          /\ UNCHANGED expect /\ UNCHANGED requests
      BY <1>2, <2>0, <2>1 DEF Finish
    <3>2. complete' \in SUBSET Names
      BY <1>2, <2>1, <3>1 DEF IInv, TypeOK, IsOpen
    <3>3. /\ files' \in [Names -> Seq(Cell)] /\ lost' \subseteq Names /\ lost \subseteq lost'
          /\ stream' = [stream EXCEPT ![s] = Closed]
          /\ SoleWriter' /\ AtEnd' /\ CompleteClosed' /\ AcknowledgedIsWhole'
          /\ \A t \in Sessions : (IsOpen(t) /\ stream[t].bad => stream[t].file \in lost)'
      BY <1>2, <2>1, <3>1, <3>2, CloseKeeps
    <3>4. TypeOK'
      BY <1>2, <3>1, <3>2, <3>3 DEF IInv, TypeOK, Closed
    <3>5. FailuresKnown'
      BY <3>1, <3>3 DEF FailuresKnown
    <3> QED
      BY <3>3, <3>4, <3>5 DEF IInv
  <2>2. CASE ~(r.last /\ IsOpen(s))
    <3>1. UNCHANGED <<files, stream, lost, complete, requests, expect>> /\ worker' = Idle
      BY <1>2, <2>0, <2>2 DEF Finish
    <3>2. TypeOK' /\ FailuresKnown'
      BY <1>2, <3>1 DEF IInv, TypeOK, FailuresKnown, IsOpen
    <3>3. SoleWriter' /\ AtEnd' /\ CompleteClosed' /\ AcknowledgedIsWhole'
      BY <1>2, <3>1 DEF IInv, SoleWriter, AtEnd, CompleteClosed, AcknowledgedIsWhole,
                        Writers, IsOpen, Promised
    <3> QED
      BY <3>2, <3>3 DEF IInv
  <2> QED
    BY <2>1, <2>2
<1> QED
  BY <1>1, <1>2

(* A crash leaves of each promised file the pieces that reached it.        *)
LEMMA CrashKeeps == IInv /\ Crash => IInv'
<1> SUFFICES ASSUME IInv, Crash PROVE IInv'
  OBVIOUS
<1>1. /\ stream' = [s \in Sessions |-> Closed] /\ worker' = Idle
      /\ UNCHANGED <<files, requests, lost, complete>>
      /\ \A s \in Sessions : ~IsOpen(s)'
      /\ \A n \in Names : Writers(n)' = {}
  BY NamesAssumption DEF Crash, IsOpen, Closed, Writers
<1>2. \A n \in Names : /\ ~Promised(n) => expect'[n] = expect[n]
                       /\ Promised(n) => expect'[n] = [expect[n] EXCEPT !.len = Len(files[n])]
  BY DEF Crash
<1>3. expect' \in [Names -> [up : Uploads \cup {"none"}, len : Nat]]
  <2>1. \A n \in Names : [expect[n] EXCEPT !.len = Len(files[n])]
                              \in [up : Uploads \cup {"none"}, len : Nat]
    <3> SUFFICES ASSUME NEW n \in Names
                 PROVE  [expect[n] EXCEPT !.len = Len(files[n])]
                           \in [up : Uploads \cup {"none"}, len : Nat]
      OBVIOUS
    <3>1. PICK e \in [up : Uploads \cup {"none"}, len : Nat], l \in Nat :
            e = expect[n] /\ l = Len(files[n])
      BY DEF IInv, TypeOK
    <3>2. [e EXCEPT !.len = l] \in [up : Uploads \cup {"none"}, len : Nat]
      OBVIOUS
    <3> QED
      BY <3>1, <3>2
  <2>2. \A n \in Names : (IF Promised(n) THEN [expect[n] EXCEPT !.len = Len(files[n])]
                           ELSE expect[n]) \in [up : Uploads \cup {"none"}, len : Nat]
    BY <2>1 DEF IInv, TypeOK
  <2> QED
    BY <2>2 DEF Crash
<1>4. TypeOK'
  BY <1>1, <1>3 DEF IInv, TypeOK, Closed
<1>5. \A n \in Names : Promised(n)' => Promised(n) /\ files[n] = Pieces(expect'[n])
  <2> SUFFICES ASSUME NEW n \in Names, Promised(n)'
               PROVE  Promised(n) /\ files[n] = Pieces(expect'[n])
    OBVIOUS
  <2>1. Promised(n)
    BY <1>1, <1>2 DEF Promised, IInv, TypeOK
  <2>2. PICK e \in [up : Uploads, len : Nat], c \in Seq(Cell) : e = expect[n] /\ c = files[n]
    BY <2>1 DEF Promised, IInv, TypeOK
  <2>3. PICK b \in Seq(Cell) : c \o b = Pieces(e)
    <3>1. CASE Writers(n) = {}
      <4>1. c \o <<>> = c /\ <<>> \in Seq(Cell)
        BY ConcatEmptySeq
      <4>2. c = Pieces(e)
        BY <2>1, <2>2, <3>1 DEF IInv, AcknowledgedIsWhole
      <4> QED
        BY <4>1, <4>2
    <3>2. CASE Writers(n) # {}
      BY <2>1, <2>2, <3>2 DEF IInv, TypeOK, AcknowledgedIsWhole, Writers
    <3> QED
      BY <3>1, <3>2
  <2>4. c = Pieces([e EXCEPT !.len = Len(c)])
    BY <2>3, PiecesPrefix
  <2> QED
    BY <1>2, <2>1, <2>2, <2>4
<1>6. SoleWriter' /\ CompleteClosed'
  BY <1>1 DEF IInv, TypeOK, SoleWriter, CompleteClosed
<1>7. AtEnd' /\ FailuresKnown'
  BY <1>1 DEF AtEnd, FailuresKnown
<1>8. AcknowledgedIsWhole'
  BY <1>1, <1>5 DEF AcknowledgedIsWhole
<1> QED
  BY <1>4, <1>6, <1>7, <1>8 DEF IInv

---------------------------------------------------------------------------
(* The theorems. *)

(* The invariant holds initially. *)
LEMMA InitIInv == Init => IInv
<1> SUFFICES ASSUME Init PROVE IInv
  OBVIOUS
<1>1. TypeOK
  BY DEF Init, TypeOK, Closed, Nothing
<1>2. \A n \in Names : expect[n].up = "none"
  BY DEF Init, Nothing
<1>3. SoleWriter /\ CompleteClosed /\ AcknowledgedIsWhole
  BY <1>2 DEF Init, SoleWriter, CompleteClosed, AcknowledgedIsWhole, Promised
<1>4. AtEnd /\ FailuresKnown
  BY DEF Init, AtEnd, FailuresKnown, IsOpen, Closed
<1> QED
  BY <1>1, <1>3, <1>4 DEF IInv

(* Every step preserves it. *)
LEMMA StepIInv == IInv /\ [Next]_vars => IInv'
<1> SUFFICES ASSUME IInv, [Next]_vars PROVE IInv'
  OBVIOUS
<1>1. ASSUME UNCHANGED <<files, stream, expect, lost, complete>>,
             worker' \in {Idle} \cup [pc : {"open", "write", "close"}, s : Sessions, r : Request],
             requests' \in Nat,
             worker'.pc # "write" \/ IsOpen(worker'.s) \/ worker' = worker \/ worker' = Idle
      PROVE  IInv'
  <2>1. TypeOK' /\ FailuresKnown'
    BY <1>1 DEF IInv, TypeOK, FailuresKnown, IsOpen
  <2>2. SoleWriter' /\ AtEnd' /\ CompleteClosed' /\ AcknowledgedIsWhole'
    <3>1. \A n \in Names : Writers(n)' = Writers(n) /\ (Promised(n)' <=> Promised(n))
      BY <1>1 DEF Writers, Promised
    <3>2. SoleWriter' /\ CompleteClosed'
      BY <1>1, <3>1 DEF IInv, TypeOK, SoleWriter, CompleteClosed
    <3>3. AtEnd'
      BY <1>1 DEF IInv, AtEnd, IsOpen, Promised
    <3>4. AcknowledgedIsWhole'
      BY <1>1, <3>1 DEF IInv, AcknowledgedIsWhole
    <3> QED
      BY <3>2, <3>3, <3>4
  <2> QED
    BY <2>1, <2>2 DEF IInv
<1>2. CASE Refuse
  BY <1>1, <1>2 DEF Refuse, IInv, TypeOK
<1>3. CASE Begin
  <2>1. PICK s \in Sessions, r \in Request : worker' = [pc |-> "open", s |-> s, r |-> r]
    BY <1>3 DEF Begin
  <2> QED
    BY <1>1, <1>3, <2>1 DEF Begin, IInv, TypeOK
<1>4. CASE AlreadyOpen
  <2>1. worker \in [pc : {"open", "write", "close"}, s : Sessions, r : Request]
    BY <1>4 DEF AlreadyOpen, IInv, TypeOK, Idle
  <2>2. worker' \in [pc : {"open", "write", "close"}, s : Sessions, r : Request]
        /\ worker'.s = worker.s
    BY <1>4, <2>1 DEF AlreadyOpen, Goto
  <2> QED
    BY <1>1, <1>4, <2>2 DEF AlreadyOpen, IInv, TypeOK
<1>5. CASE OpenStream
  BY <1>5, OpenKeeps
<1>6. CASE OpenFails \/ WriteNowhere
  BY <1>6, NowhereKeeps
<1>7. CASE DecodeThrows
  BY <1>1, <1>7 DEF DecodeThrows, IInv, TypeOK
<1>8. CASE WriteOpen
  BY <1>8, WriteKeeps
<1>9. CASE Finish \/ \E s \in Sessions : DestroySession(s)
  BY <1>9, EndKeeps
<1>10. CASE Crash
  BY <1>10, CrashKeeps
<1>11. CASE UNCHANGED vars
  BY <1>1, <1>11 DEF vars, IInv, TypeOK
<1> QED
  BY <1>2, <1>3, <1>4, <1>5, <1>6, <1>7, <1>8, <1>9, <1>10, <1>11 DEF Next, Handler

(* The inductive invariant holds in every state of the upload handler      *)
(* (do_upload_file_req), whatever sessions, crashes and the disk do.       *)
THEOREM Invariant == Spec => []IInv
  BY InitIInv, StepIInv, PTL DEF Spec

(* do_upload_file_req and m_file_out keep their types.                     *)
THEOREM TypeCorrect == Spec => []TypeOK
  BY Invariant, PTL DEF IInv

(* Acknowledged pieces are in the file or in the one buffer that belongs   *)
(* to it (the answer of do_upload_file_req is sent before anything is      *)
(* flushed).                                                               *)
THEOREM AcknowledgedKept == Spec => []AcknowledgedIsWhole
  BY Invariant, PTL DEF IInv

(* A file that was closed by its last piece is all on disk.                *)
THEOREM CompleteKept == Spec => []CompleteIsOnDisk
<1>1. IInv => CompleteIsOnDisk
  BY DEF IInv, TypeOK, CompleteClosed, AcknowledgedIsWhole, CompleteIsOnDisk, Promised
<1> QED
  BY <1>1, Invariant, PTL
=============================================================================
