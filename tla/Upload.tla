------------------------------- MODULE Upload -------------------------------
(***************************************************************************)
(* The upload handler of LogicSystem (logicsystem.cpp): a file arrives in  *)
(* pieces, each a request of its own, and is written through the ofstream  *)
(* that the session keeps from piece to piece.  The worker handles one     *)
(* request at a time; a session, with its stream, may be destroyed and the *)
(* process may end between any two steps.  A piece is an item of a file;   *)
(* the stream's buffer reaches the file piece by piece.  Assert is a       *)
(* no-op, as in every build without _DEBUG.                                *)
(***************************************************************************)
EXTENDS Naturals, Sequences

CONSTANTS Sessions, Names, Uploads,  \* connections, file names, and the
                                     \* contents that clients send
          MaxPieces,                 \* the largest seq
          MaxRequests                \* bound on the requests of a behaviour

ASSUME NamesAssumption == "none" \notin Names /\ "none" \notin Uploads
ASSUME PiecesAssumption == MaxPieces \in Nat /\ MaxRequests \in Nat

Piece == [up : Uploads, seq : 1..MaxPieces]
Junk == [up |-> "none", seq |-> 0]   \* bytes of no piece: a hole, or the
                                     \* decoding of something that is no base64
Cell == Piece \cup {Junk}

(* What is read of root: name, seq, last and data; up tells the files that *)
(* clients send under one name apart.                                      *)
Request == [name : Names, up : Uploads, seq : 1..MaxPieces, last : BOOLEAN,
            valid : BOOLEAN]

VARIABLES
  files,     \* the content of each file of the static directory
  stream,    \* m_file_out of each session: the file, whether it was opened
             \* with app, where it writes if not, what it buffers, badbit
  worker,    \* do_upload_file_req: [pc, s, r]
  requests,  \* the requests so far
  expect,    \* history: for each file, that it holds the first len pieces of
             \* up, as far as the requests say, or nothing ("none")
  lost,      \* history: the files that an open or a write has failed on
  complete   \* history: the files whose last piece was acknowledged, and
             \* which have not been opened since

vars == <<files, stream, worker, requests, expect, lost, complete>>

Closed == [file |-> "none", append |-> FALSE, pos |-> 0, buf |-> <<>>, bad |-> FALSE]
Opened(n, append) == [file |-> n, append |-> append, pos |-> 0, buf |-> <<>>, bad |-> FALSE]
Idle == [pc |-> "idle"]
Nothing == [up |-> "none", len |-> 0]
IsOpen(s) == stream[s].file # "none"
(* A file of which something is expected. *)
Promised(n) == expect[n].up # "none" /\ n \notin lost
Writers(n) == {s \in Sessions : stream[s].file = n}

TypeOK ==
  /\ files \in [Names -> Seq(Cell)]
  /\ stream \in [Sessions -> [file : Names \cup {"none"}, append : BOOLEAN, pos : Nat,
                              buf : Seq(Cell), bad : BOOLEAN]]
  /\ worker \in {Idle} \cup [pc : {"open", "write", "close"}, s : Sessions, r : Request]
  /\ requests \in Nat
  /\ expect \in [Names -> [up : Uploads \cup {"none"}, len : Nat]]
  /\ lost \subseteq Names /\ complete \subseteq Names

Init ==
  /\ files = [n \in Names |-> <<>>]
  /\ stream = [s \in Sessions |-> Closed]
  /\ worker = Idle
  /\ requests = 0
  /\ expect = [n \in Names |-> Nothing]
  /\ lost = {} /\ complete = {}

---------------------------------------------------------------------------
(* The file system. *)

(* A write at a position overwrites, and leaves a hole past the end. *)
Overwrite(content, pos, data) ==
  LET end == IF pos + Len(data) > Len(content) THEN pos + Len(data) ELSE Len(content)
  IN [i \in 1..end |-> IF i > pos /\ i <= pos + Len(data) THEN data[i - pos]
                       ELSE IF i <= Len(content) THEN content[i] ELSE Junk]

(* The first k items of buf reach the file of stream st. *)
Flushed(st, buf, k) ==
  IF k = 0 THEN files
  ELSE [files EXCEPT ![st.file] =
          IF st.append THEN @ \o SubSeq(buf, 1, k)
          ELSE Overwrite(@, st.pos, SubSeq(buf, 1, k))]

Rest(st, buf, k) ==
  [st EXCEPT !.buf = SubSeq(buf, k + 1, Len(buf)), !.pos = IF st.append THEN 0 ELSE @ + k]

(* close(), by the handler or the session's destructor: what is buffered   *)
(* is written, all of it unless the disk fails.                            *)
CloseDropping(s) ==                        \* a slip: without a flush
  /\ stream' = [stream EXCEPT ![s] = Closed]
  /\ UNCHANGED <<files, lost>>
Close(s) ==
  LET st == stream[s]
  IN /\ stream' = [stream EXCEPT ![s] = Closed]
     /\ \E k \in 0..Len(st.buf) :
          /\ files' = Flushed(st, st.buf, k)
          /\ lost' = IF k = Len(st.buf) THEN lost ELSE lost \cup {st.file}

---------------------------------------------------------------------------
(* The handler. *)

Goto(pc) == worker' = [worker EXCEPT !.pc = pc]

(* A body that is no JSON or lacks a field, or a directory that cannot be  *)
(* created, leaves by an exception before the stream is touched.           *)
Refuse ==
  /\ worker.pc = "idle" /\ requests < MaxRequests
  /\ requests' = requests + 1
  /\ UNCHANGED <<files, stream, worker, expect, lost, complete>>

Begin ==
  /\ worker.pc = "idle" /\ requests < MaxRequests
  /\ requests' = requests + 1
  /\ \E s \in Sessions, r \in Request : worker' = [pc |-> "open", s |-> s, r |-> r]
  /\ UNCHANGED <<files, stream, expect, lost, complete>>

(* A stream that is open stays as it is, whatever the name and the seq.    *)
AlreadyOpen ==
  /\ worker.pc = "open" /\ IsOpen(worker.s)
  /\ Goto("write")
  /\ UNCHANGED <<files, stream, requests, expect, lost, complete>>

(* What is expected of a file once a request has opened it: the first      *)
(* piece starts it anew, a later one continues it, and nothing is expected *)
(* of a file that another session has open.                                *)
ExpectAtOpen(r) ==
  [expect EXCEPT ![r.name] = IF Writers(r.name) # {} THEN Nothing
                             ELSE IF r.seq = 1 THEN [up |-> r.up, len |-> 0] ELSE @]

(* The first piece opens with trunc, the others with app.                  *)
TruncatesNever(r) == FALSE                 \* a slip: always app
Truncates(r) == r.seq = 1

OpenStream ==
  LET r == worker.r
  IN /\ worker.pc = "open" /\ ~IsOpen(worker.s)
     /\ stream' = [stream EXCEPT ![worker.s] = Opened(r.name, ~Truncates(r))]
     /\ files' = IF Truncates(r) THEN [files EXCEPT ![r.name] = <<>>] ELSE files
     /\ expect' = ExpectAtOpen(r)
     /\ lost' = IF r.seq = 1 /\ Writers(r.name) = {} THEN lost \ {r.name} ELSE lost
     /\ complete' = complete \ {r.name}
     /\ Goto("write")
     /\ UNCHANGED requests

OpenFails ==
  LET r == worker.r
  IN /\ worker.pc = "open" /\ ~IsOpen(worker.s)
     /\ expect' = ExpectAtOpen(r)
     /\ lost' = lost \cup {r.name}
     /\ complete' = complete \ {r.name}
     /\ Goto("write")
     /\ UNCHANGED <<files, stream, requests>>

(* base64_decode of invalid data returns -1 as a length, which throws, or  *)
(* what it could decode.                                                   *)
DecodeThrows ==
  /\ worker.pc = "write" /\ ~worker.r.valid
  /\ worker' = Idle
  /\ UNCHANGED <<files, stream, requests, expect, lost, complete>>

Decoded(r) ==
  IF r.valid THEN {<<[up |-> r.up, seq |-> r.seq]>>} ELSE {<<>>, <<Junk>>}

(* The next piece of the expected upload extends it, anything else that is *)
(* written to the file ends the expectation.                               *)
Extended(e, n, r) ==
  IF r.valid /\ r.name = n /\ e.up = r.up /\ r.seq = e.len + 1
  THEN [up |-> e.up, len |-> e.len + 1] ELSE Nothing
ExpectAtWrite(n, r) == [expect EXCEPT ![n] = Extended(@, n, r)]

(* out << buffer: buffered, or on its way to the file, in whole or in part *)
(* and with or without an error.  With badbit set nothing is written.      *)
Put(s, data, bad) ==
  LET st == stream[s]
      buf == IF st.bad THEN st.buf ELSE st.buf \o data
  IN \E k \in 0..Len(buf) :
       /\ st.bad => bad /\ k = 0
       /\ files' = Flushed(st, buf, k)
       /\ stream' = [stream EXCEPT ![s] = [Rest(st, buf, k) EXCEPT !.bad = bad]]
       /\ lost' = IF bad THEN lost \cup {st.file} ELSE lost

WriteOpen ==
  LET r == worker.r  s == worker.s
  IN /\ worker.pc = "write" /\ IsOpen(s)
     /\ \E data \in Decoded(r), bad \in BOOLEAN : Put(s, data, bad)
     /\ expect' = ExpectAtWrite(stream[s].file, r)
     /\ Goto("close")
     /\ UNCHANGED <<requests, complete>>

(* Where the open failed, the handler goes on as if it had not.            *)
WriteNowhere ==
  /\ worker.pc = "write" /\ ~IsOpen(worker.s)
  /\ expect' = ExpectAtWrite(worker.r.name, worker.r)
  /\ Goto("close")
  /\ UNCHANGED <<files, stream, requests, lost, complete>>

(* The last piece closes the stream; the answer is E_SUCESS in any case.   *)
FinishWithoutClose ==                      \* a slip: the stream stays open
  /\ worker.pc = "close"
  /\ complete' = IF worker.r.last /\ IsOpen(worker.s)
                 THEN complete \cup {stream[worker.s].file} ELSE complete
  /\ worker' = Idle
  /\ UNCHANGED <<files, stream, requests, expect, lost>>
Finish ==
  /\ worker.pc = "close"
  /\ IF worker.r.last /\ IsOpen(worker.s)
     THEN /\ Close(worker.s)
          /\ complete' = complete \cup {stream[worker.s].file}
     ELSE UNCHANGED <<files, stream, lost, complete>>
  /\ worker' = Idle
  /\ UNCHANGED <<requests, expect>>

---------------------------------------------------------------------------
(* Around the handler. *)

(* The last shared_ptr to a session goes: m_file_out is destroyed.  The    *)
(* LogicNode holds one while the handler runs.                             *)
Busy(s) == worker # Idle /\ worker.s = s

DestroySession(s) ==
  /\ IsOpen(s) /\ ~Busy(s)
  /\ Close(s)
  /\ UNCHANGED <<worker, requests, expect, complete>>

(* The process is killed and started again: the files stay.  A client can  *)
(* see how much of a file there is and go on from there.                   *)
Crash ==
  /\ stream' = [s \in Sessions |-> Closed]
  /\ worker' = Idle
  /\ expect' = [n \in Names |-> IF Promised(n) THEN [expect[n] EXCEPT !.len = Len(files[n])]
                                ELSE expect[n]]
  /\ UNCHANGED <<files, requests, lost, complete>>

Handler == \/ AlreadyOpen \/ OpenStream \/ OpenFails
           \/ DecodeThrows \/ WriteOpen \/ WriteNowhere \/ Finish

Next == \/ Refuse \/ Begin \/ Handler
        \/ \E s \in Sessions : DestroySession(s)
        \/ Crash

Spec == Init /\ [][Next]_vars

---------------------------------------------------------------------------
(* Safety. *)

Pieces(e) == [i \in 1..e.len |-> [up |-> e.up, seq |-> i]]

(* Once its first piece has opened a file anew, the file and the buffer of *)
(* its stream together hold the pieces acknowledged so far, in order, each *)
(* once - across sessions, restarts and whatever happens to other files -  *)
(* until a client leaves the order, two sessions have the file open, or an *)
(* open or a write has failed on it (which is answered with E_SUCESS too). *)
AcknowledgedIsWhole ==
  \A n \in Names : Promised(n) =>
    /\ \A s \in Writers(n) : files[n] \o stream[s].buf = Pieces(expect[n])
    /\ Writers(n) = {} => files[n] = Pieces(expect[n])

(* Under the same conditions, a file whose last piece was acknowledged is  *)
(* all in the file and nowhere in a buffer: a crash cannot undo it.        *)
CompleteIsOnDisk ==
  \A n \in complete : Promised(n) => files[n] = Pieces(expect[n])

---------------------------------------------------------------------------
(* What a comment claims and the code does not do. *)

(* "first packet, destroys the file" (logicsystem.cpp:74): once a first    *)
(* piece has been written, and neither an open or write nor another        *)
(* session interfered, the file of that name consists of that piece.       *)
FirstPieceDestroysFile ==
  LET r == worker.r  s == worker.s
  IN worker.pc = "close" /\ r.seq = 1 /\ r.valid
       /\ r.name \notin lost /\ Writers(r.name) \subseteq {s}
     => stream[s].file = r.name /\ Len(files[r.name] \o stream[s].buf) = 1
=============================================================================
