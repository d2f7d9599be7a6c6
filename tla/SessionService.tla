--------------------------- MODULE SessionService ---------------------------
(***************************************************************************)
(* What a session promises its peer: requests are handled one at a time,   *)
(* in the order in which they were sent, none is skipped or handled twice, *)
(* and a response answers a request whose handler has been entered.  A     *)
(* request may go unanswered (an unregistered id, a body that is no JSON,  *)
(* a send queue at its limit).  InOrder, which a session keeps only as     *)
(* long as its send and its write_handler do not overlap, promises that a  *)
(* response answers a later request than the one before, so none twice.    *)
(***************************************************************************)
EXTENDS Naturals, Sequences

CONSTANT Request

VARIABLES requests,    \* what the peer has sent, in order
          begun,       \* the requests whose handler has been entered
          responses    \* the positions in requests of those answered

vars == <<requests, begun, responses>>

Init == requests = <<>> /\ begun = 0 /\ responses = <<>>

Ask == /\ Len(requests') = Len(requests) + 1
       /\ requests'[Len(requests')] \in Request
       /\ requests' = Append(requests, requests'[Len(requests')])
       /\ UNCHANGED <<begun, responses>>

Handle == /\ begun < Len(requests)
          /\ begun' = begun + 1
          /\ UNCHANGED <<requests, responses>>

Respond == /\ \E n \in 1..begun : responses' = Append(responses, n)
           /\ UNCHANGED <<requests, begun>>

Next == Ask \/ Handle \/ Respond

Spec == Init /\ [][Next]_vars

InOrder == \A i \in DOMAIN responses :
             \A j \in 1..(i - 1) : responses[j] < responses[i]
=============================================================================
