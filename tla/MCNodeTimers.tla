---------------------------- MODULE MCNodeTimers ----------------------------
(***************************************************************************)
(* NodeTimers with as many numbers as can be in use at once, plus one.     *)
(***************************************************************************)
EXTENDS NodeTimers
=============================================================================
