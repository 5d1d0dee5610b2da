----------------------------- MODULE MCNodeApply -----------------------------
(***************************************************************************)
(* NodeApply with two handlers.  They are interchangeable, but the         *)
(* liveness properties rule symmetry out.                                  *)
(***************************************************************************)
EXTENDS NodeApply
=============================================================================
