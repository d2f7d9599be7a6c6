------------------------------ MODULE UploadMC ------------------------------
(***************************************************************************)
(* Model checking of the upload handler, with the inductive invariant of   *)
(* its proof.                                                              *)
(***************************************************************************)
EXTENDS UploadProofs, TLC

(* Sessions, names and contents are interchangeable; no liveness is        *)
(* checked.                                                                *)
Interchangeable ==
  Permutations(Sessions) \cup Permutations(Names) \cup Permutations(Uploads)
=============================================================================
