---------------------------- MODULE FifoChannel ----------------------------
(***************************************************************************)
(* What every stage of the request pipeline promises: items leave in the   *)
(* order in which they entered, each exactly once, none invented and none  *)
(* skipped.  CSession's reader (frames in, messages out), LogicSystem      *)
(* (messages in, handled messages out) and CSession's sender (responses    *)
(* in, frames out) are each compared with this specification.              *)
(***************************************************************************)
EXTENDS Naturals, Sequences

CONSTANT Item

VARIABLES put,   \* everything that has entered, in order
          got    \* everything that has left, in order

vars == <<put, got>>

Init == put = <<>> /\ got = <<>>

Put == /\ Len(put') = Len(put) + 1
       /\ put'[Len(put')] \in Item
       /\ put' = Append(put, put'[Len(put')])
       /\ UNCHANGED got

Get == /\ Len(got) < Len(put)
       /\ got' = Append(got, put[Len(got) + 1])
       /\ UNCHANGED put

Next == Put \/ Get

Spec == Init /\ [][Next]_vars
=============================================================================
